---- MODULE Spec2Model ----
(***************************************************************************)
(* A model of the hask core: the typeclass instance registry               *)
(* (hask/lang/type_system.py), the Hindley-Milner unification engine       *)
(* (hask/lang/hindley_milner.py) and the call-time type-checked function   *)
(* wrapper TypedFunc (hask/lang/type_system.py).                           *)
(***************************************************************************)
EXTENDS Integers, Sequences, FiniteSets, TLC

VARIABLES
    next_id,          \* Typeclass.__next_id__
    magic,            \* per class: its own __unique_typeclass_id__ attribute
    readonly_types,   \* Typeclass.__readonly_types__
    instances,        \* per typeclass: its __instances__ dictionary
    regRet            \* what the last registry call raised or returned (the
                      \* value as a tuple: <<>> is None)

VARIABLES
    heap,             \* the type graph: every TypeVariable and TypeOperator
                      \* object alive, a node's index being its identity
    uniRet            \* the last call on the type graph and what it raised

VARIABLES
    funcs,            \* the TypedFunc objects alive, in the order they were
                      \* built, an object's index being its identity
    ret               \* the last operation on a wrapper, its arguments, what
                      \* it raised or returned and what it invoked

regVars == <<next_id, magic, readonly_types, instances, regRet>>

hmVars == <<heap, uniRet>>

tfVars == <<funcs, ret>>

VARIABLES
    kl                \* the last calls of kleisli_fish and kleisli_compose:
                      \* their arguments and what they returned

VARIABLES
    tv_next_id,       \* TypeVariable.__next_id
    threads           \* per thread of control: where it is in the
                      \* allocation of an identity and its local values

kleisliVars == <<kl>>

threadVars == <<tv_next_id, threads>>

vars ==
    <<next_id, magic, readonly_types, instances, regRet, heap, uniRet, funcs,
      ret, kl, tv_next_id, threads>>

(***************************************************************************)
(* Typeclass instance registry                                             *)
(***************************************************************************)

\* The number of threads of control that allocate identities
NumThreads == 3

Threads == 1..NumThreads

\* No call of kleisli_fish or kleisli_compose yet
NoCall == [f |-> "", g |-> "", x |-> 0, value |-> <<>>]

KleisliIdle == kl = [fish |-> NoCall, compose |-> NoCall]

\* No thread has started an allocation; no TypeVariable was built.
ThreadsIdle ==
    /\ tv_next_id = 0
    /\ threads = [t \in Threads |->
                    [pc |-> "idle", counter |-> "", res |-> 0, next |-> 0]]

\* get_id's sentinel 'unset' for "no identity yet", written as a number that
\* is no identity (identities start at 1).
UNSET == 0

\* A dictionary with d[k] = v set
DictSet(d, k, v) == [x \in DOMAIN d \cup {k} |-> IF x = k THEN v ELSE d[x]]

\* The dictionary with no entry
EmptyDict == [x \in {} |-> UNSET]

\* name = value, then rest: the value is computed once and rest reads it
\* under its name.
Local(value, rest(_)) == CHOOSE out \in {rest(name) : name \in {value}} : TRUE

\* The typeclasses of the model: Show, Eq, Ord(Eq), Num(Show, Eq).
Typeclasses == {"Show", "Eq", "Ord", "Num"}

\* TypeMeta.__init__: the dependency list is mro()[1:-2], the ancestors
\* without the typeclass itself, Typeclass and object.
dependencies(typeclass) ==
    CASE typeclass = "Ord" -> <<"Eq">>
      [] typeclass = "Num" -> <<"Show", "Eq">>
      [] OTHER -> <<>>

\* The classes instances are declared for: A is a type constructor built by
\* make_type_const, B a data constructor class of A (make_data_const makes it
\* a subclass of A), int a builtin class.
Classes == {"A", "B", "int"}

\* The method resolution order of a class, without object.
Mro(cls) == IF cls = "B" THEN <<"B", "A">> ELSE <<cls>>

\* setattr(key, magic, res) raises TypeError on a builtin class.
Settable(cls) == cls # "int"

\* The key get_id is called with for a Hask value: typeof(item) builds a new
\* type object at every call.
NewObject == "typeof(item)"

\* The values T[item] is looked up with: a value of data constructor B (an
\* ADT value) and an int.
Items == {"b", "one"}

\* The attrs dictionaries an instance is declared with.
Attrs == {"where"}

\* getattr(key, magic, UNSET): the attribute of the first class of the MRO
\* that has it.
RECURSIVE getattrFrom(_, _, _)
getattrFrom(mro, i, mg) ==
    IF i > Len(mro) THEN UNSET
    ELSE IF mro[i] \in DOMAIN mg THEN mg[mro[i]]
    ELSE getattrFrom(mro, i + 1, mg)

getattr(key, mg) == IF key = NewObject THEN UNSET ELSE getattrFrom(Mro(key), 1, mg)

\* Typeclass.get_id(key): the identity and the state it leaves.  The third
\* tier (name and id(key) % 1048576) is not reachable: an unhashable key
\* raises in __readonly_types__.get before it.
get_id(key, nid, mg, ro) ==
    LET res == getattr(key, mg) IN
    IF res # UNSET
    THEN [res |-> res, next_id |-> nid, magic |-> mg, readonly_types |-> ro]
    ELSE IF key \in DOMAIN ro
    THEN [res |-> ro[key], next_id |-> nid, magic |-> mg, readonly_types |-> ro]
    ELSE IF key = NewObject
    THEN [res |-> nid, next_id |-> nid + 1, magic |-> mg, readonly_types |-> ro]
    ELSE IF Settable(key)
    THEN [res |-> nid, next_id |-> nid + 1,
          magic |-> DictSet(mg, key, nid), readonly_types |-> ro]
    ELSE [res |-> nid, next_id |-> nid + 1,
          magic |-> mg, readonly_types |-> DictSet(ro, key, nid)]

\* key in typeclass.__instances__
HasKey(inst, typeclass, key) == key \in DOMAIN inst[typeclass]

\* build_instance: next((dep for dep in deps if key not in dep.__instances__), None)
RECURSIVE FirstUnmetFrom(_, _, _, _)
FirstUnmetFrom(deps, i, key, inst) ==
    IF i > Len(deps) THEN "None"
    ELSE IF ~HasKey(inst, deps[i], key) THEN deps[i]
    ELSE FirstUnmetFrom(deps, i + 1, key, inst)

\* Mutant: the scan starts at the second dependency.
FirstUnmetSkipsFirst(deps, key, inst) == FirstUnmetFrom(deps, 2, key, inst)

\* Mutant: only the first dependency is looked at.
FirstUnmetOnlyFirst(deps, key, inst) ==
    IF Len(deps) > 0 /\ ~HasKey(inst, deps[1], key) THEN deps[1] ELSE "None"

FirstUnmet(deps, key, inst) == FirstUnmetFrom(deps, 1, key, inst)

\* The namedtuple build_instance stores: its name is made of the typeclass
\* and the class, its fields are attrs.
MethodTable(typeclass, cls, attrs) == <<typeclass, cls, attrs>>

\* build_instance(typeclass, cls, attrs)
build_instance(typeclass, cls, attrs) ==
    LET g == get_id(cls, next_id, magic, readonly_types)
        bad == FirstUnmet(dependencies(typeclass), g.res, instances)
    IN  /\ next_id' = g.next_id
        /\ magic' = g.magic
        /\ readonly_types' = g.readonly_types
        /\ IF bad = "None"
           THEN /\ instances' = [instances EXCEPT ![typeclass] =
                        DictSet(@, g.res, MethodTable(typeclass, cls, attrs))]
                /\ regRet' = [raised |-> "None", value |-> <<>>]
           ELSE /\ instances' = instances
                /\ regRet' = [raised |-> "Missing dependency", value |-> <<bad>>]

\* has_instance(cls, typeclass), for a typeclass that is a subclass of
\* Typeclass
has_instance(cls, typeclass) ==
    LET g == get_id(cls, next_id, magic, readonly_types) IN
        /\ next_id' = g.next_id
        /\ magic' = g.magic
        /\ readonly_types' = g.readonly_types
        /\ instances' = instances
        /\ regRet' = [raised |-> "None",
                      value |-> IF HasKey(instances, typeclass, g.res)
                                THEN <<"True">> ELSE <<"False">>]

\* TypeMeta.__getitem__: the key of an item.  An ADT value gives its
\* __type_constructor__, a Hask value typeof(item), anything else type(item).
KeyOf(item) ==
    CASE item = "b" -> "A"
      [] item = "fn" -> NewObject
      [] OTHER -> "int"

\* TypeMeta.__getitem__(typeclass, item)
getitem(typeclass, item) ==
    LET g == get_id(KeyOf(item), next_id, magic, readonly_types) IN
        /\ next_id' = g.next_id
        /\ magic' = g.magic
        /\ readonly_types' = g.readonly_types
        /\ instances' = instances
        /\ regRet' = IF HasKey(instances, typeclass, g.res)
                     THEN [raised |-> "None", value |-> instances[typeclass][g.res]]
                     ELSE [raised |-> "No instance", value |-> <<>>]

RegInit ==
    /\ next_id = 1
    /\ magic = EmptyDict
    /\ readonly_types = EmptyDict
    /\ instances = [t \in Typeclasses |-> EmptyDict]
    /\ regRet = [raised |-> "None", value |-> <<>>]

RegisterInstance ==
    /\ \E t \in Typeclasses, c \in Classes, a \in Attrs : build_instance(t, c, a)
    /\ UNCHANGED <<hmVars, tfVars, kleisliVars, threadVars>>

HasInstance ==
    /\ \E t \in Typeclasses, c \in Classes : has_instance(c, t)
    /\ UNCHANGED <<hmVars, tfVars, kleisliVars, threadVars>>

LookupInstance ==
    /\ \E t \in Typeclasses, i \in Items : getitem(t, i)
    /\ UNCHANGED <<hmVars, tfVars, kleisliVars, threadVars>>

(***************************************************************************)
(* Type representation and the unification engine (hindley_milner.py)      *)
(***************************************************************************)

\* The depth of nested calls at which a recursion that does not end is cut
\* and reported as Python's RecursionError.
MaxDepth == 12

\* TypeVariable(constraints): instance None is written 0.
TypeVariable(constraints) ==
    [kind |-> "var", instance |-> 0, constraints |-> constraints,
     name |-> "", nameVar |-> 0, types |-> <<>>]

\* A TypeVariable whose instance is set.
BoundVariable(instance, constraints) ==
    [kind |-> "var", instance |-> instance, constraints |-> constraints,
     name |-> "", nameVar |-> 0, types |-> <<>>]

\* TypeOperator(name, types) with a concrete name.
TypeOperator(name, types) ==
    [kind |-> "op", instance |-> 0, constraints |-> {},
     name |-> name, nameVar |-> 0, types |-> types]

\* TypeOperator(name, types) whose name is the TypeVariable v (a
\* higher-kinded placeholder).
TypeOperatorHK(v, types) ==
    [kind |-> "op", instance |-> 0, constraints |-> {},
     name |-> "", nameVar |-> v, types |-> types]

\* Function(from_type, to_type)
Function(from_type, to_type) == TypeOperator("->", <<from_type, to_type>>)

isTypeVariable(h, t) == h[t].kind = "var"

isTypeOperator(h, t) == h[t].kind = "op"

\* a.name != b.name: names are compared as Python objects, a TypeVariable
\* name by identity.
NameDiffers(h, a, b) == h[a].name # h[b].name \/ h[a].nameVar # h[b].nameVar

\* Mutant: prune returns its argument, bound or not.
pruneKeepsArgument(h, t) == [h |-> h, t |-> t]

\* Mutant: prune returns the instance of t as it finds it.
pruneNoCompression(h, t) ==
    IF isTypeVariable(h, t) /\ h[t].instance # 0
    THEN [h |-> h, t |-> h[t].instance]
    ELSE [h |-> h, t |-> t]

\* prune(t): the defining instance of t, with the chain collapsed onto it.
RECURSIVE prune(_, _)
prune(h, t) ==
    IF isTypeVariable(h, t) /\ h[t].instance # 0
    THEN LET r == prune(h, h[t].instance)
         IN  [h |-> [r.h EXCEPT ![t].instance = r.t], t |-> r.t]
    ELSE [h |-> h, t |-> t]

\* Mutant: the occurs check looks at the type itself only, not inside it.
occursInTypeShallow(h, v, type2, d) ==
    LET p == prune(h, type2) IN
    [h |-> p.h, r |-> IF p.t = v THEN "True" ELSE "False"]

\* occursInType(v, type2) and occursIn(t, types): any() stops at the first
\* type v occurs in.  r is "True", "False" or "RecursionError".
RECURSIVE occursInType(_, _, _, _)
RECURSIVE occursInFrom(_, _, _, _, _)
occursInType(h, v, type2, d) ==
    IF d > MaxDepth THEN [h |-> h, r |-> "RecursionError"]
    ELSE LET p == prune(h, type2) IN
         IF p.t = v THEN [h |-> p.h, r |-> "True"]
         ELSE IF isTypeOperator(p.h, p.t)
         THEN occursInFrom(p.h, v, p.h[p.t].types, 1, d + 1)
         ELSE [h |-> p.h, r |-> "False"]

occursInFrom(h, t, types, i, d) ==
    IF i > Len(types) THEN [h |-> h, r |-> "False"]
    ELSE LET o == occursInType(h, t, types[i], d) IN
         IF o.r # "False" THEN o
         ELSE occursInFrom(o.h, t, types, i + 1, d)

occursIn(h, t, types, d) == occursInFrom(h, t, types, 1, d)

\* Mutant: the union of the constraints is stored on v1 only.
unify_varOneSided(h, v1, t2, d) ==
    IF v1 = t2 THEN [h |-> h, err |-> "None"]
    ELSE LET union == h[v1].constraints \cup h[t2].constraints
             h1 == IF isTypeVariable(h, t2)
                   THEN [h EXCEPT ![v1].constraints = union]
                   ELSE h
             o == occursInType(h1, v1, t2, d + 1)
         IN  IF o.r = "False"
             THEN [h |-> [o.h EXCEPT ![v1].instance = t2], err |-> "None"]
             ELSE IF o.r = "True"
             THEN [h |-> o.h, err |-> "recursive unification"]
             ELSE [h |-> o.h, err |-> "RecursionError"]

\* Mutant: a variable with constraints is bound to an operator only when
\* every typeclass of its constraints has an instance.
unify_varNeedsInstance(h, v1, t2, d) ==
    IF v1 = t2 THEN [h |-> h, err |-> "None"]
    ELSE IF isTypeOperator(h, t2)
            /\ \E c \in h[v1].constraints : instances[c] = EmptyDict
    THEN [h |-> h, err |-> "No instance"]
    ELSE LET union == h[v1].constraints \cup h[t2].constraints
             h1 == IF isTypeVariable(h, t2)
                   THEN [h EXCEPT ![v1].constraints = union,
                                  ![t2].constraints = union]
                   ELSE h
             o == occursInType(h1, v1, t2, d + 1)
         IN  IF o.r = "False"
             THEN [h |-> [o.h EXCEPT ![v1].instance = t2], err |-> "None"]
             ELSE IF o.r = "True"
             THEN [h |-> o.h, err |-> "recursive unification"]
             ELSE [h |-> o.h, err |-> "RecursionError"]

\* unify_var(v1, t2), called with both pruned.
unify_var(h, v1, t2, d) ==
    IF v1 = t2 THEN [h |-> h, err |-> "None"]
    ELSE LET union == h[v1].constraints \cup h[t2].constraints
             h1 == IF isTypeVariable(h, t2)
                   THEN [h EXCEPT ![v1].constraints = union,
                                  ![t2].constraints = union]
                   ELSE h
             o == occursInType(h1, v1, t2, d + 1)
         IN  IF o.r = "False"
             THEN [h |-> [o.h EXCEPT ![v1].instance = t2], err |-> "None"]
             ELSE IF o.r = "True"
             THEN [h |-> o.h, err |-> "recursive unification"]
             ELSE [h |-> o.h, err |-> "RecursionError"]

\* unify(t1, t2).  The loop over zip(a.types, b.types) runs after every
\* branch that did not raise, on the lists a and b hold at that moment.
RECURSIVE unify(_, _, _, _)
RECURSIVE unifyZip(_, _, _, _, _)
unify(h, t1, t2, d) ==
    IF d > MaxDepth THEN [h |-> h, err |-> "RecursionError"]
    ELSE
    LET pa == prune(h, t1)
        pb == prune(pa.h, t2)
        a == pa.t
        b == pb.t
        h2 == pb.h
    IN  IF isTypeVariable(h2, a) THEN unify_var(h2, a, b, d)
        ELSE IF isTypeOperator(h2, a) /\ isTypeVariable(h2, b)
        THEN unify_var(h2, b, a, d)
        ELSE IF isTypeOperator(h2, a) /\ isTypeOperator(h2, b)
        THEN LET r == IF h2[a].nameVar # 0 /\ Len(h2[a].types) > 0
                      THEN unify([h2 EXCEPT ![a].name = h2[b].name,
                                            ![a].nameVar = h2[b].nameVar,
                                            ![a].types = h2[b].types],
                                 a, b, d + 1)
                      ELSE IF h2[b].nameVar # 0
                      THEN unify(h2, b, a, d + 1)
                      ELSE IF NameDiffers(h2, a, b)
                              \/ Len(h2[a].types) # Len(h2[b].types)
                      THEN [h |-> h2, err |-> "Type mismatch"]
                      ELSE [h |-> h2, err |-> "None"]
             IN  IF r.err # "None" THEN r
                 ELSE unifyZip(r.h, r.h[a].types, r.h[b].types, 1, d)
        ELSE [h |-> h2, err |-> "Not unified"]

\* Mutant: the loop goes on after a pair that failed and raises the first
\* error at the end.
unifyZipKeepsGoing(h, ps, qs, i, d) ==
    IF i > Len(ps) \/ i > Len(qs) THEN [h |-> h, err |-> "None"]
    ELSE LET r == unify(h, ps[i], qs[i], d + 1)
             rest == unifyZip(r.h, ps, qs, i + 1, d)
         IN  [h |-> rest.h, err |-> IF r.err # "None" THEN r.err ELSE rest.err]

\* Mutant: the loop stops after the first pair of arguments.
unifyZipFirstOnly(h, ps, qs, i, d) ==
    IF i > 1 \/ i > Len(ps) \/ i > Len(qs) THEN [h |-> h, err |-> "None"]
    ELSE unify(h, ps[i], qs[i], d + 1)

unifyZip(h, ps, qs, i, d) ==
    IF i > Len(ps) \/ i > Len(qs) THEN [h |-> h, err |-> "None"]
    ELSE LET r == unify(h, ps[i], qs[i], d + 1) IN
         IF r.err # "None" THEN r
         ELSE unifyZip(r.h, ps, qs, i + 1, d)

(***************************************************************************)
(* The analyzer (hindley_milner.py)                                        *)
(***************************************************************************)

\* The nodes of the expression language
Var(name) == [node |-> "Var", name |-> name]

App(fn, arg) == [node |-> "App", fn |-> fn, arg |-> arg]

Lam(v, body) == [node |-> "Lam", v |-> v, body |-> body]

Let(v, defn, body) == [node |-> "Let", v |-> v, defn |-> defn, body |-> body]

\* Mutant: every variable is generic, so that fresh copies every variable.
isGenericAlways(h, v, non_generic, d) == [h |-> h, r |-> "True"]

\* Mutant: no variable is generic, so that fresh shares every variable.
isGenericNever(h, v, non_generic, d) == [h |-> h, r |-> "False"]

\* isGeneric(v, non_generic), v pruned.  non_generic is kept in the order the
\* variables were added.
isGeneric(h, v, non_generic, d) ==
    Local(occursIn(h, v, non_generic, d), LAMBDA o :
    [h |-> o.h,
     r |-> IF o.r = "True" THEN "False"
           ELSE IF o.r = "False" THEN "True" ELSE o.r])

\* fresh(t, non_generic): freshrec copies the type, a new TypeVariable
\* (without constraints) for every generic variable, the same one for the
\* same variable.
RECURSIVE freshrec(_, _, _, _, _)
RECURSIVE freshrecAll(_, _, _, _, _, _, _)
freshrec(h, mappings, tp, non_generic, d) ==
    IF d > MaxDepth
    THEN [h |-> h, mappings |-> mappings, t |-> 0, err |-> "RecursionError"]
    ELSE
    Local(prune(h, tp), LAMBDA p :
    IF isTypeVariable(p.h, p.t)
    THEN Local(isGeneric(p.h, p.t, non_generic, d + 1), LAMBDA g :
         IF g.r = "RecursionError"
         THEN [h |-> g.h, mappings |-> mappings, t |-> 0, err |-> g.r]
         ELSE IF g.r = "False"
         THEN [h |-> g.h, mappings |-> mappings, t |-> p.t, err |-> "None"]
         ELSE IF p.t \in DOMAIN mappings
         THEN [h |-> g.h, mappings |-> mappings, t |-> mappings[p.t],
               err |-> "None"]
         ELSE [h |-> Append(g.h, TypeVariable({})),
               mappings |-> DictSet(mappings, p.t, Len(g.h) + 1),
               t |-> Len(g.h) + 1, err |-> "None"])
    ELSE Local(freshrecAll(p.h, mappings, p.h[p.t].types, 1, <<>>,
                           non_generic, d + 1),
         LAMBDA c :
             IF c.err # "None"
             THEN [h |-> c.h, mappings |-> c.mappings, t |-> 0, err |-> c.err]
             ELSE [h |-> Append(c.h, [p.h[p.t] EXCEPT !.types = c.ts]),
                   mappings |-> c.mappings, t |-> Len(c.h) + 1,
                   err |-> "None"]))

freshrecAll(h, mappings, types, i, acc, non_generic, d) ==
    IF i > Len(types)
    THEN [h |-> h, mappings |-> mappings, ts |-> acc, err |-> "None"]
    ELSE Local(freshrec(h, mappings, types[i], non_generic, d), LAMBDA c :
         IF c.err # "None"
         THEN [h |-> c.h, mappings |-> c.mappings, ts |-> acc, err |-> c.err]
         ELSE freshrecAll(c.h, c.mappings, types, i + 1, Append(acc, c.t),
                          non_generic, d))

\* Mutant: the type itself is returned, nothing is copied.
freshShared(h, t, non_generic, d) == [h |-> h, t |-> t, err |-> "None"]

\* Mutant: the type copied is overwritten with its copy.
freshInPlace(h, t, non_generic, d) ==
    Local(freshrec(h, EmptyDict, t, non_generic, d), LAMBDA r :
    [h |-> IF r.err = "None" THEN [r.h EXCEPT ![t] = r.h[r.t]] ELSE r.h,
     t |-> r.t, err |-> r.err])

fresh(h, t, non_generic, d) ==
    Local(freshrec(h, EmptyDict, t, non_generic, d), LAMBDA r :
    [h |-> r.h, t |-> r.t, err |-> r.err])

\* Mutant: the type of a name is copied as if no variable were non-generic.
getTypeAllGeneric(h, name, env, non_generic, d) ==
    IF name \in DOMAIN env
    THEN fresh(h, env[name], <<>>, d)
    ELSE [h |-> h, t |-> 0, err |-> "Undefined symbol"]

\* getType(name, env, non_generic)
getType(h, name, env, non_generic, d) ==
    IF name \in DOMAIN env
    THEN fresh(h, env[name], non_generic, d)
    ELSE [h |-> h, t |-> 0, err |-> "Undefined symbol"]

\* node.analyze(env, non_generic) for the four kinds of node
RECURSIVE analyze(_, _, _, _, _)
analyze(h, node, env, non_generic, d) ==
    IF d > MaxDepth THEN [h |-> h, t |-> 0, err |-> "RecursionError"]
    ELSE IF node.node = "Var"
    THEN getType(h, node.name, env, non_generic, d)
    ELSE IF node.node = "App"
    THEN Local(analyze(h, node.fn, env, non_generic, d + 1), LAMBDA f :
         IF f.err # "None" THEN f
         ELSE
         Local(analyze(f.h, node.arg, env, non_generic, d + 1), LAMBDA a :
         IF a.err # "None" THEN a
         ELSE
         LET result_type == Len(a.h) + 1
             h1 == a.h \o <<TypeVariable({}), Function(a.t, result_type)>>
         IN  Local(unify(h1, Len(a.h) + 2, f.t, d + 1), LAMBDA u :
             [h |-> u.h, t |-> IF u.err = "None" THEN result_type ELSE 0,
              err |-> u.err])))
    ELSE IF node.node = "Lam"
    THEN LET arg_type == Len(h) + 1
             new_env == DictSet(env, node.v, arg_type)
         IN  Local(analyze(Append(h, TypeVariable({})), node.body, new_env,
                           Append(non_generic, arg_type), d + 1),
             LAMBDA b :
                 IF b.err # "None" THEN b
                 ELSE [h |-> Append(b.h, Function(arg_type, b.t)),
                       t |-> Len(b.h) + 1, err |-> "None"])
    ELSE LET new_type == Len(h) + 1
             new_env == DictSet(env, node.v, new_type)
         IN  Local(analyze(Append(h, TypeVariable({})), node.defn, new_env,
                           Append(non_generic, new_type), d + 1),
             LAMBDA defn :
                 IF defn.err # "None" THEN defn
                 ELSE Local(unify(defn.h, new_type, defn.t, d + 1), LAMBDA u :
                      IF u.err # "None" THEN [h |-> u.h, t |-> 0, err |-> u.err]
                      ELSE analyze(u.h, node.body, new_env, non_generic, d + 1)))

(***************************************************************************)
(* The call-time type-checked wrapper TypedFunc (type_system.py)           *)
(***************************************************************************)

\* Python values: an int, a str (a run of n letters), a TypedFunc (the n-th
\* wrapper), the Undefined object, None.
IntValue(n) == [kind |-> "int", n |-> n]

StrValue(n) == [kind |-> "str", n |-> n]

FuncValue(i) == [kind |-> "TypedFunc", n |-> i]

undefined == [kind |-> "Undefined", n |-> 0]

NoValue == [kind |-> "None", n |-> 0]

\* Mutant: every value that is not a wrapper gets a new TypeVariable.
typeofUntyped(h, fs, obj) ==
    IF obj.kind = "TypedFunc" THEN [h |-> h, t |-> fs[obj.n].fn_type]
    ELSE [h |-> Append(h, TypeVariable({})), t |-> Len(h) + 1]

\* typeof(obj): the fn_type of a wrapper, a new TypeVariable for Undefined,
\* a new TypeOperator(type(obj), []) otherwise.
typeof(h, fs, obj) ==
    IF obj.kind = "TypedFunc" THEN [h |-> h, t |-> fs[obj.n].fn_type]
    ELSE IF obj.kind = "Undefined"
    THEN [h |-> Append(h, TypeVariable({})), t |-> Len(h) + 1]
    ELSE [h |-> Append(h, TypeOperator(obj.kind, <<>>)), t |-> Len(h) + 1]

\* {id(arg): typeof(arg) for arg in args}, in the order of args
RECURSIVE typeofAll(_, _, _, _, _)
typeofAll(h, fs, args, i, acc) ==
    IF i > Len(args) THEN [h |-> h, ts |-> acc]
    ELSE Local(typeof(h, fs, args[i]), LAMBDA r :
         typeofAll(r.h, fs, args, i + 1, Append(acc, r.t)))

\* The functions a run starts with and their signatures: id :: a -> a,
\* const :: a -> b -> a, add :: Num a => a -> a -> a, inc :: int -> int,
\* length :: str -> int, wrong :: int -> str, a function that does not
\* keep to its signature: it returns its argument,
\* asTypeOf :: a -> a -> a, which returns its first argument, and
\* fromInt :: int -> a, which returns its argument.
Prims ==
    <<"id", "const", "add", "inc", "length", "wrong", "asTypeOf", "fromInt">>

Signature(name) ==
    CASE name = "id" -> <<"a", "a">>
      [] name = "const" -> <<"a", "b", "a">>
      [] name = "add" -> <<"a", "a", "a">>
      [] name = "inc" -> <<"int", "int">>
      [] name = "length" -> <<"str", "int">>
      [] name = "wrong" -> <<"int", "str">>
      [] name = "asTypeOf" -> <<"a", "a", "a">>
      [] name = "fromInt" -> <<"int", "a">>

\* The typeclass constraints of a signature's variable
SignatureConstraints(name, arg) ==
    IF name = "add" /\ arg = "a" THEN {"Num"} ELSE {}

\* arg.islower(): the names of a signature that are type variables
IsLower(arg) == arg \in {"a", "b"}

\* build_sig: one object per argument of the signature, a variable shared by
\* its occurrences, a new TypeOperator for every occurrence of a type.
RECURSIVE build_sig(_, _, _, _, _, _)
build_sig(h, name, args, i, var_dict, acc) ==
    IF i > Len(args) THEN [h |-> h, ts |-> acc]
    ELSE IF IsLower(args[i])
    THEN IF args[i] \in DOMAIN var_dict
         THEN build_sig(h, name, args, i + 1, var_dict,
                        Append(acc, var_dict[args[i]]))
         ELSE build_sig(Append(h, TypeVariable(SignatureConstraints(name, args[i]))),
                        name, args, i + 1,
                        DictSet(var_dict, args[i], Len(h) + 1),
                        Append(acc, Len(h) + 1))
    ELSE build_sig(Append(h, TypeOperator(args[i], <<>>)), name, args, i + 1,
                   var_dict, Append(acc, Len(h) + 1))

\* make_fn_type(params), for two parameters or more
RECURSIVE make_fn_type(_, _)
make_fn_type(h, params) ==
    IF Len(params) = 2
    THEN [h |-> Append(h, Function(params[1], params[2])), t |-> Len(h) + 1]
    ELSE Local(make_fn_type(h, Tail(params)), LAMBDA r :
         [h |-> Append(r.h, Function(params[1], r.t)), t |-> Len(r.h) + 1])

\* The native functions: a declared function, functools.partial(self.func,
\* *args) of the wrapper self, and the lambda x: self.func(fn.func(x)) of a
\* composition.
prim(name) ==
    [kind |-> "prim", name |-> name, self |-> 0, fn |-> 0, args |-> <<>>]

partial(self, args) ==
    [kind |-> "partial", name |-> "", self |-> self, fn |-> 0, args |-> args]

composed_fn(self, fn) ==
    [kind |-> "composed_fn", name |-> "", self |-> self, fn |-> fn,
     args |-> <<>>]

\* TypedFunc(fn, fn_args, fn_type)
TypedFunc(fn, fn_args, fn_type) ==
    [func |-> fn, fn_args |-> fn_args, fn_type |-> fn_type]

\* A declaration: the signature is built, the function is wrapped.
declare(h, fs, name) ==
    Local(build_sig(h, name, Signature(name), 1, EmptyDict, <<>>), LAMBDA s :
    Local(make_fn_type(s.h, s.ts), LAMBDA f :
    [h |-> f.h, fs |-> Append(fs, TypedFunc(prim(name), s.ts, f.t))]))

RECURSIVE DeclaredFrom(_)
DeclaredFrom(n) ==
    IF n = 0 THEN [h |-> <<>>, fs |-> <<>>]
    ELSE Local(DeclaredFrom(n - 1), LAMBDA r : declare(r.h, r.fs, Prims[n]))

Declared == DeclaredFrom(Len(Prims))

\* The number of positional parameters of a declared function
Arity(name) == Len(Signature(name)) - 1

\* What Python raises inside a native function: a call with the wrong number
\* of arguments, an operand the body does not support.
Raised == [kind |-> "raise", n |-> 0]

\* The body of a declared function
PrimBody(name, args) ==
    CASE name = "id" -> args[1]
      [] name = "const" -> args[1]
      [] name = "add" ->
            IF args[1].kind = "int" /\ args[2].kind = "int"
            THEN IntValue(args[1].n + args[2].n)
            ELSE IF args[1].kind = "str" /\ args[2].kind = "str"
            THEN StrValue(args[1].n + args[2].n)
            ELSE Raised
      [] name = "inc" ->
            IF args[1].kind = "int" THEN IntValue(args[1].n + 1) ELSE Raised
      [] name = "length" ->
            IF args[1].kind = "str" THEN IntValue(args[1].n) ELSE Raised
      [] name = "wrong" -> args[1]
      [] name = "asTypeOf" -> args[1]
      [] name = "fromInt" -> args[1]

\* func(*args) for a native function: the value or the TypeError, and the
\* declared functions whose body ran, with their arguments.
RECURSIVE invoke(_, _, _)
invoke(fs, func, args) ==
    IF func.kind = "prim"
    THEN IF Len(args) # Arity(func.name)
         THEN [raised |-> "TypeError", value |-> NoValue, ran |-> <<>>]
         ELSE Local(PrimBody(func.name, args), LAMBDA v :
              [raised |-> IF v = Raised THEN "TypeError" ELSE "None",
               value |-> IF v = Raised THEN NoValue ELSE v,
               ran |-> <<[name |-> func.name, args |-> args]>>])
    ELSE IF func.kind = "partial"
    THEN invoke(fs, fs[func.self].func, func.args \o args)
    ELSE IF Len(args) # 1
    THEN [raised |-> "TypeError", value |-> NoValue, ran |-> <<>>]
    ELSE Local(invoke(fs, fs[func.fn].func, args), LAMBDA inner :
         IF inner.raised # "None" THEN inner
         ELSE Local(invoke(fs, fs[func.self].func, <<inner.value>>),
              LAMBDA outer : [outer EXCEPT !.ran = inner.ran \o @]))

\* The identifiers of the arguments in the environment of a call
ArgNames == <<"arg1", "arg2", "arg3">>

\* ap after the loop over k arguments: App(... App(Var(self), arg1) ..., argk)
RECURSIVE AppChain(_)
AppChain(k) ==
    IF k = 0 THEN Var("self") ELSE App(AppChain(k - 1), Var(ArgNames[k]))

\* TypedFunc.__call__ up to the analysis: the environment, the chain of
\* applications and ap.analyze(env)
analyze_call(h, fs, w, args) ==
    Local(typeofAll(h, fs, args, 1, <<>>), LAMBDA e :
    LET names == {"self"} \cup {ArgNames[i] : i \in 1..Len(args)}
        env == [x \in names |->
                  IF x = "self" THEN fs[w].fn_type
                  ELSE e.ts[CHOOSE i \in 1..Len(args) : ArgNames[i] = x]]
    IN  analyze(e.h, AppChain(Len(args)), env, <<>>, 0))

\* The first Undefined argument, 0 if there is none
FirstUndefined(args) ==
    IF \E i \in 1..Len(args) : args[i].kind = "Undefined"
    THEN CHOOSE i \in 1..Len(args) :
            /\ args[i].kind = "Undefined"
            /\ \A j \in 1..(i - 1) : args[j].kind # "Undefined"
    ELSE 0

NotInvoked == [raised |-> "None", value |-> NoValue, ran |-> <<>>, invoked |-> 0]

\* Mutant: a call is taken to supply every parameter also when it supplies
\* more arguments than parameters remain.
saturatedNoneLeft(fn_args, args) == Len(fn_args) - 1 <= Len(args)

\* len(self.fn_args) - 1 == len(args)
saturated(fn_args, args) == Len(fn_args) - 1 = Len(args)

\* Mutant: the native function is called whenever the number of arguments
\* fits, whatever the analysis said.
apply_nativeUnchecked(fs, w, args, err) ==
    IF saturated(fs[w].fn_args, args)
    THEN Local(invoke(fs, fs[w].func, args), LAMBDA n :
         [raised |-> n.raised, value |-> n.value, ran |-> n.ran, invoked |-> 1])
    ELSE NotInvoked

\* result = self.func(*args), reached when the analysis did not raise and
\* len(self.fn_args) - 1 == len(args)
apply_native(fs, w, args, err) ==
    IF err = "None" /\ saturated(fs[w].fn_args, args)
    THEN Local(invoke(fs, fs[w].func, args), LAMBDA n :
         [raised |-> n.raised, value |-> n.value, ran |-> n.ran, invoked |-> 1])
    ELSE NotInvoked

\* Mutant: the new wrapper keeps every parameter of the one it was made from.
residual_argsAll(fn_args, args) == fn_args

\* self.fn_args[len(args):]
residual_args(fn_args, args) == SubSeq(fn_args, Len(args) + 1, Len(fn_args))

\* TypedFunc.__call__(*args)
call(h, fs, w, args) ==
    Local(FirstUndefined(args), LAMBDA u :
    IF u # 0
    THEN Local(typeofAll(h, fs, args, 1, <<>>), LAMBDA e :
         [h |-> e.h, fs |-> fs, raised |-> "None", value |-> args[u],
          invoked |-> 0, ran |-> <<>>])
    ELSE
    Local(analyze_call(h, fs, w, args), LAMBDA a :
    Local(apply_native(fs, w, args, a.err), LAMBDA n :
    IF a.err # "None"
    THEN [h |-> a.h, fs |-> fs, raised |-> a.err, value |-> NoValue,
          invoked |-> n.invoked, ran |-> n.ran]
    ELSE IF saturated(fs[w].fn_args, args)
    THEN IF n.raised # "None"
         THEN [h |-> a.h, fs |-> fs, raised |-> n.raised,
               value |-> NoValue, invoked |-> n.invoked, ran |-> n.ran]
         ELSE Local(typeof(a.h, fs, n.value), LAMBDA ty :
              Local(unify(ty.h, a.t, ty.t, 0), LAMBDA r :
              [h |-> r.h, fs |-> fs, raised |-> r.err,
               value |-> IF r.err = "None" THEN n.value ELSE NoValue,
               invoked |-> n.invoked, ran |-> n.ran]))
    ELSE [h |-> a.h,
          fs |-> Append(fs, TypedFunc(partial(w, args),
                                      residual_args(fs[w].fn_args, args),
                                      a.t)),
          raised |-> "None", value |-> FuncValue(Len(fs) + 1),
          invoked |-> 0, ran |-> <<>>])))

\* TypedFunc.__mod__(arg)
mod(h, fs, w, arg) == call(h, fs, w, <<arg>>)

\* Mutant: the composition is analysed as fn after self.
compose_astSwapped(self, fn) ==
    Lam("arg", App(Var(fn), App(Var(self), Var("arg"))))

\* Lam("arg", App(Var(id(self)), App(Var(id(fn)), Var("arg"))))
compose_ast(self, fn) ==
    Lam("arg", App(Var(self), App(Var(fn), Var("arg"))))

\* Mutant: the composite takes the parameter list of fn.
newargsOfFn(self_args, fn_args) == fn_args

\* newargs = [fn.fn_args[0]] + self.fn_args[1:]
newargs(self_args, fn_args) ==
    <<fn_args[1]>> \o SubSeq(self_args, 2, Len(self_args))

\* TypedFunc.__mul__(fn), fn a TypedFunc
mul(h, fs, w, g) ==
    LET env == [x \in {"self", "fn"} |->
                  IF x = "self" THEN fs[w].fn_type ELSE fs[g].fn_type]
    IN  Local(analyze(h, compose_ast("self", "fn"), env, <<>>, 0), LAMBDA a :
        IF a.err # "None"
        THEN [h |-> a.h, fs |-> fs, raised |-> a.err, value |-> NoValue]
        ELSE IF Len(fs[g].fn_args) = 0
        THEN [h |-> a.h, fs |-> fs, raised |-> "IndexError", value |-> NoValue]
        ELSE [h |-> a.h,
              fs |-> Append(fs, TypedFunc(composed_fn(w, g),
                                          newargs(fs[w].fn_args,
                                                  fs[g].fn_args),
                                          a.t)),
              raised |-> "None", value |-> FuncValue(Len(fs) + 1)])

\* The type objects a wrapper holds on to; the others are released when the
\* call returns.
Refs(h, n) ==
    (IF h[n].instance # 0 THEN {h[n].instance} ELSE {})
    \cup (IF h[n].nameVar # 0 THEN {h[n].nameVar} ELSE {})
    \cup {h[n].types[i] : i \in DOMAIN h[n].types}

RECURSIVE Live(_, _)
Live(h, S) ==
    Local(S \cup UNION {Refs(h, n) : n \in S}, LAMBDA T :
    IF T = S THEN S ELSE Live(h, T))

Roots(fs) ==
    UNION {{fs[i].fn_type} \cup {fs[i].fn_args[j] : j \in DOMAIN fs[i].fn_args} :
             i \in DOMAIN fs}

\* The objects that are still referred to, in the order they were built
Collect(h, fs) ==
    Local(Live(h, Roots(fs)), LAMBDA keep :
    LET new(n) == IF n = 0 THEN 0 ELSE Cardinality({m \in keep : m <= n})
        old(k) == CHOOSE n \in keep : new(n) = k
    IN  [h |-> [k \in 1..Cardinality(keep) |->
                  [h[old(k)] EXCEPT
                     !.instance = new(@), !.nameVar = new(@),
                     !.types = [i \in DOMAIN @ |-> new(@[i])]]],
         fs |-> [i \in DOMAIN fs |->
                  [fs[i] EXCEPT
                     !.fn_type = new(@),
                     !.fn_args = [j \in DOMAIN @ |-> new(@[j])]]]])

\* The identity get_id would find for a class without allocating one: the
\* inherited attribute, else the side table, else UNSET.
IdentityOf(cls, mg, ro) ==
    IF getattr(cls, mg) # UNSET THEN getattr(cls, mg)
    ELSE IF cls \in DOMAIN ro THEN ro[cls]
    ELSE UNSET

\* The registry inst holds an instance of typeclass under the identity of cls.
Registered(typeclass, cls, inst, mg, ro) ==
    /\ IdentityOf(cls, mg, ro) # UNSET
    /\ IdentityOf(cls, mg, ro) \in DOMAIN inst[typeclass]

RegisteredNow(typeclass, cls) == Registered(typeclass, cls, instances, magic, readonly_types)

(***************************************************************************)
(* The starting type graphs and the calls made on them                     *)
(***************************************************************************)

\* The number of TypeOperator objects of a starting graph.
MaxOps == 2

\* The constraints the TypeVariables of a starting graph are built with: one
\* variable per entry, with one of the entry's constraint sets.
VarConstraints == << {{}, {"Eq"}}, {{"Ord"}} >>

NumVars == Len(VarConstraints)

\* The operators object i of a starting graph may be: a type without
\* arguments, a function type or a placeholder-named operator (with one
\* argument or none) over the objects built before it.
OperatorChoices(i) ==
    {TypeOperator("int", <<>>)}
    \cup {Function(j, k) : j \in 1..(i - 1), k \in 1..(i - 1)}
    \cup {TypeOperatorHK(v, <<k>>) : v \in 1..NumVars, k \in 1..(i - 1)}
    \cup {TypeOperatorHK(v, <<>>) : v \in 1..NumVars}

RECURSIVE VariableGraphs(_)
VariableGraphs(n) ==
    IF n = 0 THEN {<<>>}
    ELSE {Append(g, TypeVariable(c)) :
            g \in VariableGraphs(n - 1), c \in VarConstraints[n]}

RECURSIVE StartGraphsOf(_)
StartGraphsOf(n) ==
    IF n = 0 THEN VariableGraphs(NumVars)
    ELSE {Append(g, o) :
            g \in StartGraphsOf(n - 1), o \in OperatorChoices(NumVars + n)}

\* The finite acyclic graphs a run starts from: unbound variables and
\* operators over them.
StartGraphs == StartGraphsOf(MaxOps)

Nodes == 1..Len(heap)

\* A call unify(t1, t2) on two objects of the graph
UnifyCall(t1, t2) ==
    \E r \in {unify(heap, t1, t2, 0)} :
        /\ heap' = r.h
        /\ uniRet' = [op |-> "unify", err |-> r.err]

\* A call prune(t) on an object of the graph
PruneCall(t) ==
    \E r \in {prune(heap, t)} :
        /\ heap' = r.h
        /\ uniRet' = [op |-> "prune", err |-> "None"]

Unify ==
    /\ \E t1 \in Nodes, t2 \in Nodes : UnifyCall(t1, t2)
    /\ UNCHANGED <<regVars, tfVars, kleisliVars, threadVars>>

Prune ==
    /\ \E t \in Nodes : PruneCall(t)
    /\ UNCHANGED <<regVars, tfVars, kleisliVars, threadVars>>

\* No operation on a wrapper yet
NoRet ==
    [op |-> "None", fn |-> 0, args |-> <<>>, raised |-> "None",
     value |-> NoValue, invoked |-> 0, ran |-> <<>>]

HMIdle ==
    /\ heap = <<>>
    /\ uniRet = [op |-> "None", err |-> "None"]
    /\ funcs = <<>>
    /\ ret = NoRet

\* The registry: declarations, membership tests and lookups in any order.
Init == RegInit /\ HMIdle /\ KleisliIdle /\ ThreadsIdle

Next == RegisterInstance \/ HasInstance \/ LookupInstance

Spec == Init /\ [][Next]_vars

\* The unification engine: unify and prune calls, in any order, on a
\* starting graph.
UnifyInit ==
    /\ heap \in StartGraphs
    /\ uniRet = [op |-> "None", err |-> "None"]
    /\ RegInit
    /\ funcs = <<>>
    /\ ret = NoRet
    /\ KleisliIdle
    /\ ThreadsIdle

UnifyNext == Unify \/ Prune

SpecUnify == UnifyInit /\ [][UnifyNext]_vars

(***************************************************************************)
(* Calls, applications and compositions of wrapped functions               *)
(***************************************************************************)

\* The number of wrappers a run builds on top of the declared ones.
MaxDerived == 1

\* The values that are not wrappers a call is made with
Plain == {IntValue(1), IntValue(2), StrValue(1), undefined}

\* The argument lists of the calls: none, one value or wrapper, two values.
ArgLists(fs) ==
    {<<>>}
    \cup {<<x>> : x \in Plain \cup {FuncValue(i) : i \in DOMAIN fs}}
    \cup {<<x, y>> : x \in Plain, y \in Plain}

\* f(*args) on the wrapper f = funcs[w]
CallStep(w, args) ==
    /\ ret.op = "None"
    /\ \E r \in {call(heap, funcs, w, args)} : \E c \in {Collect(r.h, r.fs)} :
        /\ Len(r.fs) <= Len(Prims) + MaxDerived
        /\ heap' = c.h
        /\ funcs' = c.fs
        /\ ret' = [op |-> "call", fn |-> w, args |-> args,
                   raised |-> r.raised, value |-> r.value,
                   invoked |-> r.invoked, ran |-> r.ran]

\* f % arg
ModStep(w, arg) ==
    /\ ret.op = "None"
    /\ \E r \in {mod(heap, funcs, w, arg)} : \E c \in {Collect(r.h, r.fs)} :
        /\ Len(r.fs) <= Len(Prims) + MaxDerived
        /\ heap' = c.h
        /\ funcs' = c.fs
        /\ ret' = [op |-> "mod", fn |-> w, args |-> <<arg>>,
                   raised |-> r.raised, value |-> r.value,
                   invoked |-> r.invoked, ran |-> r.ran]

\* f * g
MulStep(w, g) ==
    /\ ret.op = "None"
    /\ \E r \in {mul(heap, funcs, w, g)} : \E c \in {Collect(r.h, r.fs)} :
        /\ Len(r.fs) <= Len(Prims) + MaxDerived
        /\ heap' = c.h
        /\ funcs' = c.fs
        /\ ret' = [op |-> "mul", fn |-> w, args |-> <<FuncValue(g)>>,
                   raised |-> r.raised, value |-> r.value,
                   invoked |-> 0, ran |-> <<>>]

Call ==
    /\ \E w \in DOMAIN funcs : \E args \in ArgLists(funcs) : CallStep(w, args)
    /\ UNCHANGED <<regVars, uniRet, kleisliVars, threadVars>>

Mod ==
    /\ \E w \in DOMAIN funcs :
         \E x \in Plain \cup {FuncValue(i) : i \in DOMAIN funcs} : ModStep(w, x)
    /\ UNCHANGED <<regVars, uniRet, kleisliVars, threadVars>>

Mul ==
    /\ \E w \in DOMAIN funcs, g \in DOMAIN funcs : MulStep(w, g)
    /\ UNCHANGED <<regVars, uniRet, kleisliVars, threadVars>>

\* The caller is done with what the last operation raised or returned; a
\* wrapper it returned stays.
Discard ==
    /\ ret.op # "None"
    /\ ret' = NoRet
    /\ UNCHANGED <<regVars, hmVars, funcs, kleisliVars, threadVars>>

\* The wrapper: the declared functions, then calls, applications and
\* compositions one after the other, in any order.
TypedFuncInit ==
    /\ RegInit
    /\ uniRet = [op |-> "None", err |-> "None"]
    /\ heap = Declared.h
    /\ funcs = Declared.fs
    /\ ret = NoRet
    /\ KleisliIdle
    /\ ThreadsIdle

TypedFuncNext == Call \/ Mod \/ Mul \/ Discard

SpecTypedFunc == TypedFuncInit /\ [][TypedFuncNext]_vars


(***************************************************************************)
(* Claims about the registry                                               *)
(***************************************************************************)

\* What a step that is a call build_instance(T, X, a) must do, given the
\* registry before it.
DependencyEnforcedStep(T, X, a) ==
    LET deps == dependencies(T)
        met(i) == RegisteredNow(deps[i], X)
        key == IdentityOf(X, magic', readonly_types')
    IN  /\ (regRet'.raised = "None") <=> (\A i \in 1..Len(deps) : met(i))
        /\ regRet'.raised = "None" =>
              /\ key # UNSET
              /\ DOMAIN instances'[T] = DOMAIN instances[T] \cup {key}
              /\ instances'[T][key] = MethodTable(T, X, a)
              /\ \A k \in DOMAIN instances[T] \ {key} :
                    instances'[T][k] = instances[T][k]
              /\ \A U \in Typeclasses \ {T} : instances'[U] = instances[U]
        /\ regRet'.raised # "None" =>
              /\ regRet'.raised = "Missing dependency"
              /\ instances' = instances
              /\ \E i \in 1..Len(deps) :
                    /\ ~met(i)
                    /\ \A j \in 1..(i - 1) : met(j)
                    /\ regRet'.value = <<deps[i]>>

Unbound(h, t) == isTypeVariable(h, t) /\ h[t].instance = 0

\* The objects an object refers to: a variable's instance, an operator's
\* arguments.
Children(h, n) ==
    (IF h[n].instance # 0 THEN {h[n].instance} ELSE {})
    \cup {h[n].types[i] : i \in DOMAIN h[n].types}

RECURSIVE ReachFrom(_, _)
ReachFrom(h, S) ==
    LET N == S \cup UNION {Children(h, n) : n \in S}
    IN  IF N = S THEN S ELSE ReachFrom(h, N)

\* v is inside t, at any depth, through arguments and bound variables.
Contains(h, t, v) == v \in ReachFrom(h, Children(h, t))

\* t is a finite type expression: no object under it is inside itself.
Finite(h, t) == \A n \in ReachFrom(h, {t}) : ~Contains(h, n, n)

\* The type a chain of bound variables ends at
RECURSIVE Resolve(_, _)
Resolve(h, t) ==
    IF isTypeVariable(h, t) /\ h[t].instance # 0 /\ h[t].instance # t
    THEN Resolve(h, h[t].instance)
    ELSE t

\* The bound variables of the chain that starts at t
RECURSIVE Chain(_, _)
Chain(h, t) ==
    IF isTypeVariable(h, t) /\ h[t].instance # 0 /\ h[t].instance # t
    THEN {t} \cup Chain(h, h[t].instance)
    ELSE {}

\* Structural equality of two types: the same variable, or operators with
\* the same name and pairwise structurally equal arguments.
RECURSIVE StructEq(_, _, _, _)
StructEq(h, x, y, d) ==
    LET a == Resolve(h, x)
        b == Resolve(h, y)
    IN  IF a = b THEN TRUE
        ELSE IF d > MaxDepth THEN FALSE
        ELSE IF isTypeVariable(h, a) \/ isTypeVariable(h, b) THEN FALSE
        ELSE /\ ~NameDiffers(h, a, b)
             /\ Len(h[a].types) = Len(h[b].types)
             /\ \A i \in DOMAIN h[a].types :
                    StructEq(h, h[a].types[i], h[b].types[i], d + 1)

\* The case of the occurs check in a call unify(t1, t2): one of the two is
\* the unbound variable v, the other a finite operator with v inside.
OccursCase(v, t) ==
    /\ Unbound(heap, v)
    /\ isTypeOperator(heap, t)
    /\ Finite(heap, t)
    /\ Contains(heap, t, v)

\* C7: unifying an unbound variable v with a type operator that contains v
\* at any depth, directly or through bound variables, fails with the
\* infinite-type error in either argument order and leaves v unbound.
C7_OccursCheck ==
    [][\A v \in Nodes, t \in Nodes :
          OccursCase(v, t) =>
              /\ UnifyCall(v, t) =>
                    uniRet'.err = "recursive unification" /\ Unbound(heap', v)
              /\ UnifyCall(t, v) =>
                    uniRet'.err = "recursive unification" /\ Unbound(heap', v)]_vars

\* C7 witness: a unification was refused by the occurs check on a graph in
\* which an unbound variable is inside a function type through a bound
\* variable.
C7_Witness ==
    /\ uniRet = [op |-> "unify", err |-> "recursive unification"]
    /\ \E v \in Nodes, w \in Nodes, t \in Nodes :
          /\ Unbound(heap, v)
          /\ isTypeVariable(heap, w) /\ heap[w].instance = v
          /\ heap[t] = Function(w, w)

\* C8: unify(a, b) succeeds exactly when unify(b, a) succeeds on the same
\* graph, and after a successful unification the two types are
\* structurally equal.
C8_UnifySymmetric ==
    \A a \in Nodes, b \in Nodes :
        LET r1 == unify(heap, a, b, 0)
            r2 == unify(heap, b, a, 0)
        IN  /\ (r1.err = "None") <=> (r2.err = "None")
            /\ r1.err = "None" => StructEq(r1.h, a, b, 0)
            /\ r2.err = "None" => StructEq(r2.h, a, b, 0)

\* C8 witness: two different function types were unified, binding both
\* variables of the graph.
C8_Witness ==
    /\ uniRet = [op |-> "unify", err |-> "None"]
    /\ \E a \in Nodes, b \in Nodes :
          /\ a # b
          /\ isTypeOperator(heap, a) /\ isTypeOperator(heap, b)
          /\ heap[a].name = "->" /\ heap[b].name = "->"
          /\ heap[a].types # heap[b].types
          /\ StructEq(heap, a, b, 0)
    /\ \E v \in Nodes : isTypeVariable(heap, v) /\ ~Unbound(heap, v)

\* C9: prune(t) is an unbound variable or an operator, pruning it again
\* gives it back and changes nothing, and after the call every variable of
\* the chain from t points at it.
C9_PruneIdempotent ==
    \A t \in Nodes :
        LET p == prune(heap, t)
            q == prune(p.h, p.t)
        IN  /\ p.t = Resolve(heap, t)
            /\ Unbound(p.h, p.t) \/ isTypeOperator(p.h, p.t)
            /\ q.t = p.t /\ q.h = p.h
            /\ \A n \in Chain(heap, t) : p.h[n].instance = p.t
            /\ \A n \in Nodes \ Chain(heap, t) : p.h[n] = heap[n]

\* C9 witness: a prune call has run and two variables point at the same
\* operator.
C9_Witness ==
    /\ uniRet.op = "prune"
    /\ \E v \in Nodes, w \in Nodes :
          /\ v # w
          /\ isTypeVariable(heap, v) /\ isTypeVariable(heap, w)
          /\ heap[v].instance # 0 /\ heap[v].instance = heap[w].instance
          /\ isTypeOperator(heap, heap[v].instance)

\* C10: unifying two distinct unbound variables leaves both with the union
\* of their constraint sets, whichever is passed first, and unifying them
\* again, in either order, does not change the sets.
C10_ConstraintsMerged ==
    \A a \in Nodes, b \in Nodes :
        (a # b /\ Unbound(heap, a) /\ Unbound(heap, b)) =>
            LET union == heap[a].constraints \cup heap[b].constraints
                r == unify(heap, a, b, 0)
                again == unify(r.h, a, b, 0)
                swapped == unify(r.h, b, a, 0)
                merged(h) == h[a].constraints = union /\ h[b].constraints = union
            IN  /\ r.err = "None" /\ merged(r.h)
                /\ again.err = "None" /\ merged(again.h)
                /\ swapped.err = "None" /\ merged(swapped.h)

\* C10 witness: the variables built with {Eq} and {Ord} were unified and
\* both carry {Eq, Ord}.
C10_Witness ==
    /\ uniRet = [op |-> "unify", err |-> "None"]
    /\ \E a \in Nodes, b \in Nodes :
          /\ isTypeVariable(heap, a) /\ heap[a].instance = b
          /\ Unbound(heap, b)
          /\ heap[a].constraints = {"Eq", "Ord"}
          /\ heap[b].constraints = {"Eq", "Ord"}

(***************************************************************************)
(* Claims about the wrapper                                                *)
(***************************************************************************)

\* The index of a declared function among the wrappers
PrimIndex(name) == CHOOSE i \in 1..Len(Prims) : Prims[i] = name

\* The errors the analyzer raises as TypeError
TypeErrors ==
    {"Type mismatch", "recursive unification", "Not unified", "Undefined symbol"}

NoUndefined(args) == FirstUndefined(args) = 0

OpTok(name) == [name |-> name, var |-> 0]

VarTok(k) == [name |-> "", var |-> k]

\* A type written in prefix order, its variables numbered in the order they
\* appear: two types have the same shape when they are equal up to the
\* identity of their variables.
RECURSIVE ShapeFrom(_, _, _, _)
RECURSIVE ShapeArgs(_, _, _, _, _, _)
ShapeFrom(h, t, seen, d) ==
    LET r == Resolve(h, t) IN
    IF d > MaxDepth THEN [s |-> <<OpTok("...")>>, seen |-> seen]
    ELSE IF h[r].kind = "var"
    THEN IF \E i \in DOMAIN seen : seen[i] = r
         THEN [s |-> <<VarTok(CHOOSE i \in DOMAIN seen : seen[i] = r)>>,
               seen |-> seen]
         ELSE [s |-> <<VarTok(Len(seen) + 1)>>, seen |-> Append(seen, r)]
    ELSE ShapeArgs(h, h[r].types, 1,
                   <<OpTok(IF h[r].nameVar # 0 THEN "?" ELSE h[r].name)>>,
                   seen, d + 1)

ShapeArgs(h, types, i, acc, seen, d) ==
    IF i > Len(types) THEN [s |-> acc, seen |-> seen]
    ELSE LET c == ShapeFrom(h, types[i], seen, d) IN
         ShapeArgs(h, types, i + 1, acc \o c.s, c.seen, d)

Shape(h, t) == ShapeFrom(h, t, <<>>, 0).s

\* A call of a declared function with as many values as it has parameters,
\* one of them of a type its signature rules out.
SimplyIllTyped(w, args) ==
    /\ w <= Len(Prims)
    /\ Len(args) = Arity(Prims[w])
    /\ \A i \in 1..Len(args) : args[i].kind \in {"int", "str"}
    /\ \/ Prims[w] = "add" /\ args[1].kind # args[2].kind
       \/ Prims[w] = "inc" /\ args[1].kind # "int"
       \/ Prims[w] = "length" /\ args[1].kind # "str"

\* What a call step must do about the native function, given the state
\* before it.
NativeAfterAnalysisStep ==
    ret'.op \in {"call", "mod"} =>
        LET w == ret'.fn
            args == ret'.args
            a == analyze_call(heap, funcs, w, args)
        IN  /\ ret'.invoked \in {0, 1}
            /\ ret'.invoked = 1 => (NoUndefined(args) /\ a.err = "None")
            /\ ret'.invoked = 0 => ret'.ran = <<>>
            /\ (NoUndefined(args) /\ a.err # "None") =>
                   /\ a.err \in TypeErrors
                   /\ ret'.raised = a.err
                   /\ ret'.invoked = 0
                   /\ Len(funcs') = Len(funcs)
            /\ ~NoUndefined(args) =>
                   /\ ret'.raised = "None"
                   /\ ret'.value = undefined
                   /\ ret'.invoked = 0
                   /\ Len(funcs') = Len(funcs)
            /\ SimplyIllTyped(w, args) =>
                   ret'.raised = "Type mismatch" /\ ret'.invoked = 0
            /\ (w = PrimIndex("add") /\ args = <<IntValue(1), IntValue(2)>>) =>
                   /\ ret'.raised = "None"
                   /\ ret'.value = IntValue(3)
                   /\ ret'.invoked = 1

\* C3 (amended): in every call the native function is invoked at most once
\* and only after the analysis of the whole argument chain has succeeded; a
\* call whose arguments the analysis rejects raises that type error, invokes
\* nothing and builds nothing, unless one of the arguments is the Undefined
\* object: then the call returns that argument, without an analysis and
\* without invoking the native function.  add(1, "x") raises the type
\* mismatch, add(1, 2) returns 3.
C3_NativeAfterAnalysis == [][NativeAfterAnalysisStep]_vars

\* C3 witness: add(1, "x") was rejected with a type mismatch and the native
\* function was not invoked.
C3_Witness ==
    /\ ret.op = "call"
    /\ ret.fn = PrimIndex("add")
    /\ ret.args = <<IntValue(1), StrValue(1)>>
    /\ ret.raised = "Type mismatch"
    /\ ret.invoked = 0

\* C3 as stated: every call with arguments whose types do not unify with the
\* declared type raises a type error and does not invoke the native function.
C3_AsStated ==
    [][ret'.op \in {"call", "mod"} =>
         (analyze_call(heap, funcs, ret'.fn, ret'.args).err # "None" =>
             (ret'.raised \in TypeErrors /\ ret'.invoked = 0))]_vars

\* The declared function a wrapper made by partial applications goes back
\* to, "" if it goes back to a composition.
RECURSIVE BasePrim(_, _)
BasePrim(fs, w) ==
    IF fs[w].func.kind = "prim" THEN fs[w].func.name
    ELSE IF fs[w].func.kind = "partial" THEN BasePrim(fs, fs[w].func.self)
    ELSE ""

\* The arguments the partial applications behind a wrapper have closed over,
\* in the order they were supplied.
RECURSIVE ClosedArgs(_, _)
ClosedArgs(fs, w) ==
    IF fs[w].func.kind = "partial"
    THEN ClosedArgs(fs, fs[w].func.self) \o fs[w].func.args
    ELSE <<>>

\* The residual wrapper of a call with fewer arguments than parameters
ResidualBuilt(w, args, a) ==
    LET new == Len(funcs) + 1 IN
    /\ ret'.raised = "None"
    /\ ret'.invoked = 0
    /\ ret'.value = FuncValue(new)
    /\ Len(funcs') = new
    /\ \A i \in DOMAIN funcs : funcs'[i].func = funcs[i].func
    /\ funcs'[new].func = partial(w, args)
    /\ Len(funcs'[new].fn_args) = Len(funcs[w].fn_args) - Len(args)
    /\ Shape(heap', funcs'[new].fn_type) = Shape(a.h, a.t)

\* What a call step must do about partial application, given the state
\* before it.
CurryingStep ==
    ret'.op \in {"call", "mod"} =>
        LET w == ret'.fn
            args == ret'.args
            n == Len(funcs[w].fn_args) - 1
            k == Len(args)
            a == analyze_call(heap, funcs, w, args)
            closed == ClosedArgs(funcs, w)
        IN  /\ (NoUndefined(args) /\ k < n /\ a.err = "None") =>
                   ResidualBuilt(w, args, a)
            /\ (NoUndefined(args) /\ a.err # "None") =>
                   /\ ret'.raised = a.err
                   /\ ret'.invoked = 0
                   /\ Len(funcs') = Len(funcs)
            /\ (NoUndefined(args) /\ k = n /\ a.err = "None"
                  /\ BasePrim(funcs, w) # "") =>
                   /\ ret'.invoked = 1
                   /\ ret'.ran = <<[name |-> BasePrim(funcs, w),
                                    args |-> closed \o args]>>
            /\ ~NoUndefined(args) =>
                   ret'.value = undefined /\ Len(funcs') = Len(funcs)
            /\ (w = PrimIndex("add") /\ args = <<IntValue(1)>>) =>
                   Shape(heap', funcs'[Len(funcs')].fn_type)
                     = <<OpTok("->"), OpTok("int"), OpTok("int")>>
            /\ (w = PrimIndex("const") /\ args = <<IntValue(1)>>) =>
                   Shape(heap', funcs'[Len(funcs')].fn_type)
                     = <<OpTok("->"), VarTok(1), OpTok("int")>>
            /\ (BasePrim(funcs, w) = "add" /\ Len(closed) = 1 /\ k = 1
                  /\ closed[1].kind \in {"int", "str"}
                  /\ args[1].kind \in {"int", "str"}) =>
                   IF args[1].kind = closed[1].kind
                   THEN /\ ret'.raised = "None"
                        /\ ret'.value.kind = args[1].kind
                        /\ ret'.value.n = closed[1].n + args[1].n
                   ELSE ret'.raised = "Type mismatch" /\ ret'.invoked = 0

\* C4 (amended): a wrapper with n parameters called with k < n well-typed
\* arguments, none of them the Undefined object, returns a new wrapper that
\* closes over the k arguments, has the residual type predicted by the
\* analyzer as its declared type and n - k remaining parameters; a later
\* argument of a type the residual's parameter does not unify with is
\* rejected with a type error, and supplying the remaining arguments invokes
\* the native function once with all the arguments in the order supplied.  A
\* call with an Undefined argument returns that argument and builds no
\* wrapper.
C4_Currying == [][CurryingStep]_vars

\* C4 witness: add(1) has been built and called with 2: the native function
\* ran once, with 1 and 2, and the call returned 3.
C4_Witness ==
    /\ ret.op = "call"
    /\ ret.fn = Len(Prims) + 1
    /\ funcs[ret.fn].func = partial(PrimIndex("add"), <<IntValue(1)>>)
    /\ Len(funcs[ret.fn].fn_args) = 2
    /\ ret.args = <<IntValue(2)>>
    /\ ret.value = IntValue(3)
    /\ ret.ran = <<[name |-> "add", args |-> <<IntValue(1), IntValue(2)>>]>>

\* C4 as stated: every call with fewer well-typed arguments than parameters
\* returns a new wrapper.
C4_AsStated ==
    [][ret'.op \in {"call", "mod"} =>
         ((/\ Len(ret'.args) < Len(funcs[ret'.fn].fn_args) - 1
           /\ analyze_call(heap, funcs, ret'.fn, ret'.args).err = "None")
            => (ret'.value = FuncValue(Len(funcs) + 1)
                  /\ Len(funcs') = Len(funcs) + 1))]_vars

\* The type of a wrapper is a function type
IsFunction(h, t) ==
    LET r == Resolve(h, t) IN
    h[r].kind = "op" /\ h[r].name = "->" /\ h[r].nameVar = 0

\* What a composition step must do, given the state before it: copies of
\* the two types are made, g's result is unified with f's parameter, and
\* the composite has the type from g's parameter to f's result.
CompositionStep ==
    ret'.op = "mul" =>
        LET w == ret'.fn
            g == ret'.args[1].n
            new == Len(funcs) + 1
        IN  /\ ret'.invoked = 0
            /\ (IsFunction(heap, funcs[w].fn_type)
                  /\ IsFunction(heap, funcs[g].fn_type)) =>
                 LET cf == fresh(heap, funcs[w].fn_type, <<>>, 0)
                     cg == fresh(cf.h, funcs[g].fn_type, <<>>, 0)
                     b_c == cg.h[cf.t].types
                     a_b == cg.h[cg.t].types
                     u == unify(cg.h, a_b[2], b_c[1], 0)
                     a_c == Append(u.h, Function(a_b[1], b_c[2]))
                 IN  IF u.err # "None"
                     THEN /\ ret'.raised \in TypeErrors
                          /\ Len(funcs') = Len(funcs)
                     ELSE /\ ret'.raised = "None"
                          /\ ret'.value = FuncValue(new)
                          /\ Len(funcs') = new
                          /\ funcs'[new].func = composed_fn(w, g)
                          /\ Shape(heap', funcs'[new].fn_type)
                               = Shape(a_c, Len(a_c))
            /\ (w = PrimIndex("inc") /\ g = PrimIndex("length")) =>
                   /\ ret'.raised = "None"
                   /\ Shape(heap', funcs'[new].fn_type)
                        = <<OpTok("->"), OpTok("str"), OpTok("int")>>
            /\ (w = PrimIndex("length") /\ g = PrimIndex("inc")) =>
                   ret'.raised = "Type mismatch" /\ Len(funcs') = Len(funcs)
            /\ (w = PrimIndex("id") /\ g = PrimIndex("id")) =>
                   Shape(heap', funcs'[new].fn_type)
                     = <<OpTok("->"), VarTok(1), VarTok(1)>>

\* C5: composing f :: b -> c after g :: a -> b returns, from the * operation
\* itself, a wrapper whose declared type is a -> c; when g's result type
\* does not unify with f's parameter type the * operation raises the type
\* error and builds no wrapper, and no native function is invoked.
C5_CompositionChecked == [][CompositionStep]_vars

\* C5 witness: inc * length has been built and its declared type is
\* str -> int.
C5_Witness ==
    /\ ret.op = "mul"
    /\ ret.fn = PrimIndex("inc")
    /\ ret.args = <<FuncValue(PrimIndex("length"))>>
    /\ ret.raised = "None"
    /\ Len(funcs) = Len(Prims) + 1
    /\ Shape(heap, funcs[Len(funcs)].fn_type)
         = <<OpTok("->"), OpTok("str"), OpTok("int")>>

\* Two results are the same value: the same int or str, or wrappers both.
SameValue(x, y) ==
    /\ x.kind = y.kind
    /\ x.kind # "TypedFunc" => x.n = y.n

\* C6: for wrapped f and g whose composition is accepted and an argument x
\* that g accepts, (f * g)(x) returns the same value as f(g(x)), and f % x
\* returns the same value as f(x).
C6_ComposeIsNestedCall ==
    \A f \in DOMAIN funcs, g \in DOMAIN funcs :
      \A x \in Plain \ {undefined} :
        LET m == mul(heap, funcs, f, g)
            gx == call(heap, funcs, g, <<x>>)
            fgx == call(gx.h, gx.fs, f, <<gx.value>>)
            fx == call(heap, funcs, f, <<x>>)
            fmodx == mod(heap, funcs, f, x)
        IN  /\ SameValue(fmodx.value, fx.value) /\ fmodx.raised = fx.raised
            /\ (m.raised = "None" /\ gx.raised = "None"
                  /\ fgx.raised = "None") =>
                 LET c == call(m.h, m.fs, Len(m.fs), <<x>>) IN
                 c.raised = "None" /\ SameValue(c.value, fgx.value)

(***************************************************************************)
(* Claims about termination and the shape of the type graph                *)
(***************************************************************************)

\* C13: every call unify(t1, t2) on finite type expressions ends by
\* returning or by raising a typing error, whatever the operators are named
\* by.
C13_UnifyTerminates ==
    [][\A t1 \in Nodes, t2 \in Nodes :
          (Finite(heap, t1) /\ Finite(heap, t2) /\ UnifyCall(t1, t2)) =>
              uniRet'.err \in {"None"} \cup TypeErrors]_vars

\* C20: after any sequence of unify calls on a starting graph no object is
\* inside itself through instance links and argument lists.
C20_NoCyclicType == \A n \in Nodes : ~Contains(heap, n, n)

(***************************************************************************)
(* Analysis of expressions against an environment                          *)
(***************************************************************************)

\* Tuple(types)
Tuple(types) == TypeOperator("tuple", types)

\* The type objects of the environment: int, bool and, for the variables a
\* and b, a -> b -> (a, b).
EnvHeap ==
    << TypeOperator("int", <<>>), TypeOperator("bool", <<>>),
       TypeVariable({}), TypeVariable({}), Tuple(<<3, 4>>),
       Function(4, 5), Function(3, 6) >>

\* env: one :: int, true :: bool, pair :: a -> b -> (a, b)
Env ==
    [x \in {"one", "true", "pair"} |->
        CASE x = "one" -> 1 [] x = "true" -> 2 [] x = "pair" -> 7]

Consts == {"one", "true"}

\* The name of the type of a constant of the environment
ConstType(c) == EnvHeap[Env[c]].name

\* pair applied to two expressions
Pair(x, y) == App(App(Var("pair"), x), y)

\* let id = \x -> x in (id c1, id c2)
LetIdPair(c1, c2) ==
    Let("id", Lam("x", Var("x")),
        Pair(App(Var("id"), Var(c1)), App(Var("id"), Var(c2))))

\* \id -> (id c1, id c2)
LamIdPair(c1, c2) ==
    Lam("id", Pair(App(Var("id"), Var(c1)), App(Var("id"), Var(c2))))

\* \f -> let g = f one in (g c1, g c2)
LamLetPair(c1, c2) ==
    Lam("f", Let("g", App(Var("f"), Var("one")),
                 Pair(App(Var("g"), Var(c1)), App(Var("g"), Var(c2)))))

\* The expressions analysed
Exprs ==
    {LetIdPair(c1, c2) : c1 \in Consts, c2 \in Consts}
    \cup {LamIdPair(c1, c2) : c1 \in Consts, c2 \in Consts}
    \cup {LamLetPair(c1, c2) : c1 \in Consts, c2 \in Consts}
    \cup {Pair(Var(c1), Var(c2)) : c1 \in Consts, c2 \in Consts}
    \cup {Var("pair"), Var("nothing"), App(Var("one"), Var("true")),
          Lam("x", Var("x"))}

\* The objects still referred to from roots, in the order they were built:
\* the others are released when the call returns.
Release(h, roots) ==
    Local(Live(h, roots), LAMBDA keep :
    LET new(n) == IF n = 0 THEN 0 ELSE Cardinality({m \in keep : m <= n})
        old(k) == CHOOSE n \in keep : new(n) = k
    IN  [k \in 1..Cardinality(keep) |->
            [h[old(k)] EXCEPT
               !.instance = new(@), !.nameVar = new(@),
               !.types = [i \in DOMAIN @ |-> new(@[i])]]])

EnvRoots == {Env[x] : x \in DOMAIN Env}

\* analyze(e, env): the type is reported the way str() writes it, the
\* objects of the environment stay.
AnalyzeStep(e) ==
    \E r \in {analyze(heap, e, Env, <<>>, 0)} :
        /\ heap' = Release(r.h, EnvRoots)
        /\ uniRet' = [op |-> "analyze", err |-> r.err, arg |-> e,
                      type |-> IF r.err = "None" THEN Shape(r.h, r.t)
                               ELSE <<>>]

\* fresh(t, set()) on an object of the graph
FreshStep(t) ==
    \E r \in {fresh(heap, t, <<>>, 0)} :
        /\ heap' = Release(r.h, EnvRoots)
        /\ uniRet' = [op |-> "fresh", err |-> r.err,
                      arg |-> [node |-> "Type", t |-> t],
                      type |-> IF r.err = "None" THEN Shape(r.h, r.t)
                               ELSE <<>>]

Analyze ==
    /\ \E e \in Exprs : AnalyzeStep(e)
    /\ UNCHANGED <<regVars, tfVars, kleisliVars, threadVars>>

Fresh ==
    /\ \E t \in Nodes : FreshStep(t)
    /\ UNCHANGED <<regVars, tfVars, kleisliVars, threadVars>>

\* The analyzer: unify, prune, fresh and analyze calls, in any order, on
\* the objects of the environment.
InferInit ==
    /\ heap = EnvHeap
    /\ uniRet = [op |-> "None", err |-> "None"]
    /\ RegInit
    /\ funcs = <<>>
    /\ ret = NoRet
    /\ KleisliIdle
    /\ ThreadsIdle

InferNext == Unify \/ Prune \/ Fresh \/ Analyze

SpecInfer == InferInit /\ [][InferNext]_vars

(* Claims about the analyzer *)

\* pair still has the type a -> b -> (a, b) for two unbound variables
PairPolymorphic(h) ==
    Shape(h, Env["pair"]) = Shape(EnvHeap, Env["pair"])

\* C11: a let-bound identity applied at two constants of the environment,
\* of the same type or not, is typed at each use on its own: the pair of the
\* two applications gets the tuple of the two constants' types.
C11_LetPolymorphism ==
    [][\A c1 \in Consts, c2 \in Consts :
          (PairPolymorphic(heap) /\ AnalyzeStep(LetIdPair(c1, c2))) =>
              /\ uniRet'.err = "None"
              /\ uniRet'.type =
                    <<OpTok("tuple"), OpTok(ConstType(c1)),
                      OpTok(ConstType(c2))>>]_vars

C11_Witness ==
    /\ uniRet.op = "analyze"
    /\ uniRet.arg = LetIdPair("one", "true")
    /\ uniRet.err = "None"
    /\ uniRet.type = <<OpTok("tuple"), OpTok("int"), OpTok("bool")>>

\* Every variable bound in h is bound in h2, to what it was bound to or to
\* a type further along the chain of instances from there.
StaysBound(h, h2) ==
    \A n \in 1..Len(h) :
        (isTypeVariable(h, n) /\ h[n].instance # 0) =>
            /\ isTypeVariable(h2, n)
            /\ h2[n].instance # 0
            /\ h2[n].instance \in
                  {h[n].instance} \cup Chain(h2, h[n].instance)
                  \cup {Resolve(h2, h[n].instance)}

\* C12: no call of unify, prune, fresh or analyze unbinds a bound variable or
\* binds it to a type off its chain of instances: a bound variable is at
\* most rewritten to a type it already resolves to. For fresh and analyze
\* this is read on the graph the call leaves, before its own objects are
\* released.
C12_InstanceStaysBound ==
    [][/\ StaysBound(heap, heap')
       /\ uniRet'.op = "fresh" =>
            StaysBound(heap, fresh(heap, uniRet'.arg.t, <<>>, 0).h)
       /\ uniRet'.op = "analyze" =>
            StaysBound(heap, analyze(heap, uniRet'.arg, Env, <<>>, 0).h)]_vars

\* A variable bound through another variable has been pruned to the end of
\* its chain.
C12_Witness ==
    /\ uniRet.op = "prune"
    /\ \E n \in Nodes :
          /\ isTypeVariable(heap, n)
          /\ heap[n].instance # 0
          /\ isTypeOperator(heap, heap[n].instance)
          /\ \E m \in Nodes \ {n} :
                /\ isTypeVariable(heap, m)
                /\ heap[m].instance = heap[n].instance

(* Claims about queries of the registry *)

\* The typeclass holds a method table that build_instance built for cls.
TableFor(typeclass, cls) ==
    \E k \in DOMAIN instances[typeclass] : instances[typeclass][k][2] = cls

\* C14: has_instance(X, T) never raises, and answers True exactly when T
\* holds a method table built for X.
C14_HasInstanceExact ==
    [][\A T \in Typeclasses, X \in Classes :
          has_instance(X, T) =>
              /\ regRet'.raised = "None"
              /\ (regRet'.value = <<"True">>) <=> TableFor(T, X)]_vars

\* C15: T[item] returns a method table built for T and for the key of item,
\* or raises the no-instance error when T holds no table built for that key.
C15_LookupOwnTable ==
    [][\A T \in Typeclasses, item \in Items :
          getitem(T, item) =>
              IF regRet'.raised = "None"
              THEN /\ regRet'.value[1] = T
                   /\ regRet'.value[2] = KeyOf(item)
              ELSE /\ regRet'.raised = "No instance"
                   /\ ~TableFor(T, KeyOf(item))]_vars

(* Claims about the result of a call *)

\* The value v has the type of shape predicted: a wrapper has the shape of
\* its declared type, an int or a str the operator of its class; a single
\* variable is the shape of any type, predicted or declared.
ResultFits(h, fs, v, predicted) ==
    \/ predicted = <<VarTok(1)>>
    \/ v.kind = "TypedFunc" /\ predicted = Shape(h, fs[v.n].fn_type)
    \/ v.kind = "TypedFunc" /\ Shape(h, fs[v.n].fn_type) = <<VarTok(1)>>
    \/ v.kind # "TypedFunc" /\ predicted = <<OpTok(v.kind)>>

\* The value v has not the type predicted: a value that is not a wrapper
\* where another type or a function type was predicted, a wrapper where a
\* type that is not a function type was predicted.  (A wrapper of another
\* function type than the one predicted may fit or not.)
ResultMisfits(v, predicted) ==
    /\ predicted # <<VarTok(1)>>
    /\ IF v.kind = "TypedFunc" THEN predicted[1] # OpTok("->")
       ELSE predicted # <<OpTok(v.kind)>>

\* What a call step with all the parameters supplied must do with the value
\* the declared function behind the wrapper computes.
ResultCheckedStep ==
    ret'.op \in {"call", "mod"} =>
        LET w == ret'.fn
            args == ret'.args
            a == analyze_call(heap, funcs, w, args)
            name == BasePrim(funcs, w)
            v == PrimBody(name, ClosedArgs(funcs, w) \o args)
        IN  (/\ NoUndefined(args)
             /\ a.err = "None"
             /\ Len(args) = Len(funcs[w].fn_args) - 1
             /\ name # ""
             /\ v # Raised) =>
                /\ ret'.invoked = 1
                /\ IF ResultFits(a.h, funcs, v, Shape(a.h, a.t))
                   THEN ret'.raised = "None" /\ ret'.value = v
                   ELSE IF ResultMisfits(v, Shape(a.h, a.t))
                   THEN ret'.raised = "Type mismatch" /\ ret'.value = NoValue
                   ELSE \/ ret'.raised = "None" /\ ret'.value = v
                        \/ ret'.raised = "Type mismatch" /\ ret'.value = NoValue

CompositeParametersStep ==
    (ret'.op = "mul" /\ ret'.raised = "None") =>
        LET w == ret'.fn
            g == ret'.args[1].n
            new == Len(funcs')
            fn_args == funcs'[new].fn_args
        IN  /\ new = Len(funcs) + 1
            /\ Len(fn_args) = IF funcs[w].fn_args = <<>> THEN 1
                              ELSE Len(funcs[w].fn_args)
            /\ fn_args[1] = funcs'[g].fn_args[1]
            /\ \A i \in 2..Len(fn_args) : fn_args[i] = funcs'[w].fn_args[i]

\* C19 (amended): the wrapper f * g has as its parameter list the first
\* parameter of g followed by the entries of f's list after the first, so
\* that it has as many remaining parameters as f, whatever the number of
\* parameters of g (and a list of one entry when f's list is empty).
C19_CompositeParameters == [][CompositeParametersStep]_vars

\* C19 witness: id * add was built, with one remaining parameter.
C19_Witness ==
    /\ ret.op = "mul"
    /\ ret.fn = PrimIndex("id")
    /\ ret.args = <<FuncValue(PrimIndex("add"))>>
    /\ ret.raised = "None"
    /\ Len(funcs[Len(funcs)].fn_args) - 1 = 1
    /\ Len(funcs[PrimIndex("add")].fn_args) - 1 = 2

\* C19 as stated: the wrapper f * g has as many remaining parameters as g
\* has parameters.
C19_AsStated ==
    [][(ret'.op = "mul" /\ ret'.raised = "None") =>
          Len(funcs'[Len(funcs')].fn_args) - 1
            = Len(funcs[ret'.args[1].n].fn_args) - 1]_vars

(***************************************************************************)
(* Kleisli composition over the list monad (hask3/Control/Monad.py)        *)
(***************************************************************************)

\* The largest argument of a call
MaxArg == 3

\* numbers(n) = L[0, ..., n]
numbers(n) == [i \in 1..(n + 1) |-> i - 1]

\* odds(n) = L[(x for x in numbers(n) if x % 2)]
odds(n) == SelectSeq(numbers(n), LAMBDA x : x % 2 = 1)

\* The functions a -> m b the arrows are built from: numbers and odds, the
\* function that returns its argument in a list and the one that returns
\* the empty list.
MonadicFuncs == {"numbers", "odds", "unit", "none"}

\* fn(n)
Apply(fn, n) ==
    CASE fn = "numbers" -> numbers(n)
      [] fn = "odds" -> odds(n)
      [] fn = "unit" -> <<n>>
      [] fn = "none" -> <<>>

\* chain.from_iterable(lists)
RECURSIVE from_iterable(_)
from_iterable(lists) ==
    IF lists = <<>> THEN <<>>
    ELSE Head(lists) \o from_iterable(Tail(lists))

\* _list_bind(x, fn) = L[chain.from_iterable(fmap(fn, x))], fmap on a list
\* being fn on every element in order.
list_bind(x, fn) == from_iterable([i \in DOMAIN x |-> Apply(fn, x[i])])

\* bind(m, fn) = Monad[m].bind(m, fn), m a list
bind(m, fn) == list_bind(m, fn)

\* kleisli_fish(f, g, x)
kleisli_fish(f, g, x) == bind(Apply(f, x), g)

\* Mutant: the two functions are run in the order they are written.
kleisli_composeInOrder(g, f, x) == bind(Apply(g, x), f)

\* kleisli_compose(g, f, x)
kleisli_compose(g, f, x) == bind(Apply(f, x), g)

\* kleisli_fish(f, g)(x)
KleisliFish ==
    /\ \E f \in MonadicFuncs, g \in MonadicFuncs, x \in 0..MaxArg :
          kl' = [kl EXCEPT !.fish = [f |-> f, g |-> g, x |-> x,
                                     value |-> kleisli_fish(f, g, x)]]
    /\ UNCHANGED <<regVars, hmVars, tfVars, threadVars>>

\* kleisli_compose(g, f)(x)
KleisliCompose ==
    /\ \E f \in MonadicFuncs, g \in MonadicFuncs, x \in 0..MaxArg :
          kl' = [kl EXCEPT !.compose = [f |-> f, g |-> g, x |-> x,
                                        value |-> kleisli_compose(g, f, x)]]
    /\ UNCHANGED <<regVars, hmVars, tfVars, threadVars>>

KleisliNext == KleisliFish \/ KleisliCompose

SpecKleisli == Init /\ [][KleisliNext]_vars

(* Claims about Kleisli composition *)

\* The number of elements g gives for the elements of ys before the i-th
RECURSIVE Offset(_, _, _)
Offset(ys, g, i) ==
    IF i <= 1 THEN 0
    ELSE Offset(ys, g, i - 1) + Len(Apply(g, ys[i - 1]))

\* r is what binding the list ys to g gives: the lists g gives for the
\* elements of ys laid end to end in the order of ys.
IsBound(r, ys, g) ==
    /\ Len(r) = Offset(ys, g, Len(ys) + 1)
    /\ \A i \in DOMAIN ys : \A j \in DOMAIN Apply(g, ys[i]) :
          r[Offset(ys, g, i) + j] = Apply(g, ys[i])[j]

\* C17: kleisli_fish(f, g)(x) and kleisli_compose(g, f)(x) both return what
\* binding f(x) to g gives, so that they return the same list when called
\* with the same f, g and x.
C17_KleisliAgree ==
    /\ kl.fish # NoCall =>
          IsBound(kl.fish.value, Apply(kl.fish.f, kl.fish.x), kl.fish.g)
    /\ kl.compose # NoCall =>
          IsBound(kl.compose.value, Apply(kl.compose.f, kl.compose.x),
                  kl.compose.g)
    /\ (/\ kl.fish # NoCall
        /\ kl.fish.f = kl.compose.f
        /\ kl.fish.g = kl.compose.g
        /\ kl.fish.x = kl.compose.x) => kl.fish.value = kl.compose.value

\* C17 witness: kleisli_fish(numbers, odds)(3) and
\* kleisli_compose(odds, numbers)(3) both returned [1, 1, 1, 3].
C17_Witness ==
    /\ kl.fish = [f |-> "numbers", g |-> "odds", x |-> 3,
                  value |-> <<1, 1, 1, 3>>]
    /\ kl.compose = kl.fish

(***************************************************************************)
(* Identity allocation by several threads of control                       *)
(***************************************************************************)

\* The counters identities are allocated from: TypeVariable.__next_id and
\* Typeclass.__next_id__
Counters == {"TypeVariable", "Typeclass"}

\* What a counter holds
CounterValue(c) == IF c = "TypeVariable" THEN tv_next_id ELSE next_id

\* What a counter holds before any allocation
FirstId(c) == IF c = "TypeVariable" THEN 0 ELSE 1

\* res, X = X, X + 1 is run in three steps: X is read for res, X is read
\* again and one is added, the sum is stored in X.  Another thread may run
\* between any two of them.
load_res(th, value) == [th EXCEPT !.res = value, !.pc = "next"]

\* Mutant: the value read is stored back as it is.
load_nextNoIncrement(th, value) == [th EXCEPT !.next = value, !.pc = "store"]

load_next(th, value) == [th EXCEPT !.next = value + 1, !.pc = "store"]

\* A thread builds a TypeVariable or asks get_id for the identity of a key
\* that has none.
Begin(t) ==
    /\ threads[t].pc = "idle"
    /\ \E c \in Counters :
          threads' = [threads EXCEPT ![t] = [@ EXCEPT !.pc = "res",
                                                       !.counter = c]]
    /\ UNCHANGED <<regVars, hmVars, tfVars, kleisliVars, tv_next_id>>

LoadRes(t) ==
    /\ threads[t].pc = "res"
    /\ threads' = [threads EXCEPT
                     ![t] = load_res(@, CounterValue(threads[t].counter))]
    /\ UNCHANGED <<regVars, hmVars, tfVars, kleisliVars, tv_next_id>>

LoadNext(t) ==
    /\ threads[t].pc = "next"
    /\ threads' = [threads EXCEPT
                     ![t] = load_next(@, CounterValue(threads[t].counter))]
    /\ UNCHANGED <<regVars, hmVars, tfVars, kleisliVars, tv_next_id>>

\* The sum is stored; the allocation returns res.
Store(t) ==
    /\ threads[t].pc = "store"
    /\ threads' = [threads EXCEPT ![t].pc = "done"]
    /\ IF threads[t].counter = "TypeVariable"
       THEN tv_next_id' = threads[t].next /\ next_id' = next_id
       ELSE next_id' = threads[t].next /\ tv_next_id' = tv_next_id
    /\ UNCHANGED <<magic, readonly_types, instances, regRet, hmVars, tfVars,
                   kleisliVars>>

ThreadsNext ==
    \E t \in Threads : Begin(t) \/ LoadRes(t) \/ LoadNext(t) \/ Store(t)

\* The threads, one allocation each, no lock.
SpecThreads == Init /\ [][ThreadsNext]_vars

(* Claims about identity allocation *)

\* Thread t has been given an identity from counter c.
Allocated(t, c) == threads[t].pc = "done" /\ threads[t].counter = c

\* The threads that have been given an identity from counter c, and the
\* identities they were given
Done(c) == {t \in Threads : Allocated(t, c)}

Given(c) == {threads[t].res : t \in Done(c)}

\* C18: allocations from one counter that run without a lock may overlap.
\* After k of them the counter has advanced by at least one and at most k,
\* the identities given are among the first k, the first one included, and
\* they are all different only if the counter has advanced by k: two
\* allocations that overlap are given the same identity.
C18_AllocationOutcomes ==
    \A c \in Counters :
        LET k == Cardinality(Done(c)) IN
        k > 0 =>
            /\ CounterValue(c) \in (FirstId(c) + 1)..(FirstId(c) + k)
            /\ FirstId(c) \in Given(c)
            /\ Given(c) \subseteq FirstId(c)..(FirstId(c) + k - 1)
            /\ Cardinality(Given(c)) = k => CounterValue(c) = FirstId(c) + k

\* C18 witness: both threads built a TypeVariable and both were given the
\* identity 0.
C18_Witness ==
    /\ Allocated(1, "TypeVariable") /\ Allocated(2, "TypeVariable")
    /\ threads[1].res = 0 /\ threads[2].res = 0

(***************************************************************************)
(* fresh and analyze on the objects of a type graph                        *)
(***************************************************************************)

\* The non-generic sets fresh is called with: none, or one variable of the
\* graph.
NonGenerics == {<<>>} \cup {<<v>> : v \in 1..NumVars}

\* The operators of the graph
Operators == (NumVars + 1)..Len(heap)

\* The environment of an analysis on the graph: f is one of its operators,
\* x one of its objects.
GraphEnv(t1, t2) == [name \in {"f", "x"} |-> IF name = "f" THEN t1 ELSE t2]

\* The expressions analysed in such an environment: f x, \y -> f y and
\* let g = f in g x.
GraphExprs ==
    {App(Var("f"), Var("x")),
     Lam("y", App(Var("f"), Var("y"))),
     Let("g", Var("f"), App(Var("g"), Var("x")))}

\* fresh(t, non_generic) on an object of the graph; the copy is released.
FreshCall(t, non_generic) ==
    \E r \in {fresh(heap, t, non_generic, 0)} :
        /\ heap' = Release(r.h, Nodes)
        /\ uniRet' = [op |-> "fresh", err |-> r.err]

\* e.analyze(env) in an environment of two objects of the graph; the type
\* is released.
AnalyzeCall(e, t1, t2) ==
    \E r \in {analyze(heap, e, GraphEnv(t1, t2), <<>>, 0)} :
        /\ heap' = Release(r.h, Nodes)
        /\ uniRet' = [op |-> "analyze", err |-> r.err]

FreshType ==
    /\ \E t \in Nodes : \E non_generic \in NonGenerics :
          FreshCall(t, non_generic)
    /\ UNCHANGED <<regVars, tfVars, kleisliVars, threadVars>>

AnalyzeExpr ==
    /\ \E e \in GraphExprs : \E t1 \in Operators, t2 \in Nodes :
          AnalyzeCall(e, t1, t2)
    /\ UNCHANGED <<regVars, tfVars, kleisliVars, threadVars>>

TypesNext == Unify \/ Prune \/ FreshType \/ AnalyzeExpr

\* The starting graphs whose first variable carries a constraint
TypesInit == UnifyInit /\ heap[1].constraints # {}

\* The type graph under unify, prune, fresh and analyze calls in any order.
SpecTypes == TypesInit /\ [][TypesNext]_vars

(* Claims about what the calls on a type graph leave alone *)

\* The operator n of h has the same name and the same arguments in h2.
OperatorKept(h, h2, n) ==
    /\ isTypeOperator(h2, n)
    /\ h2[n].name = h[n].name
    /\ h2[n].nameVar = h[n].nameVar
    /\ h2[n].types = h[n].types

\* C21: a step of prune, fresh, analyze or unify changes the name or the
\* arguments of an operator of the graph only if the step is a unify and
\* the operator was named by a type variable and had at least one argument;
\* operators with concrete names keep their name and arguments.
C21_OperatorsKept ==
    [][\A n \in Nodes :
          (isTypeOperator(heap, n) /\ ~OperatorKept(heap, heap', n)) =>
              /\ uniRet'.op = "unify"
              /\ heap[n].nameVar # 0
              /\ Len(heap[n].types) > 0]_vars

\* C21 witness: an analysis has returned and the graph holds an operator
\* named by a type variable, with an argument, next to a function type.
C21_Witness ==
    /\ uniRet.op = "analyze"
    /\ uniRet.err = "None"
    /\ \E n \in Operators, m \in Operators :
          /\ heap[n].nameVar # 0 /\ Len(heap[n].types) > 0
          /\ heap[m].name = "->"

\* The object n of h is in h2 what it was: an operator with the same name
\* and arguments, an unbound variable still unbound, a bound variable bound
\* to the same object or further along its chain, with the same constraints.
ObjectKept(h, h2, n) ==
    IF isTypeOperator(h, n) THEN h2[n] = h[n]
    ELSE /\ isTypeVariable(h2, n)
         /\ h2[n].constraints = h[n].constraints
         /\ h[n].instance = 0 => h2[n].instance = 0
         /\ h[n].instance # 0 =>
               /\ h2[n].instance
                     \in {h[n].instance} \cup Chain(h, h[n].instance)
                         \cup {Resolve(h, h[n].instance)}
               /\ h2[n].instance # 0

RECURSIVE Leaves(_, _, _)
RECURSIVE LeavesOfArgs(_, _, _, _)
Leaves(h, t, d) ==
    LET r == Resolve(h, t) IN
    IF d > MaxDepth THEN <<>>
    ELSE IF isTypeVariable(h, r) THEN <<r>>
    ELSE LeavesOfArgs(h, h[r].types, 1, d + 1)

LeavesOfArgs(h, types, i, d) ==
    IF i > Len(types) THEN <<>>
    ELSE Leaves(h, types[i], d) \o LeavesOfArgs(h, types, i + 1, d)

\* The names of the operators of a type, in the order they are written
RECURSIVE Names(_, _, _)
RECURSIVE NamesOfArgs(_, _, _, _)
Names(h, t, d) ==
    LET r == Resolve(h, t) IN
    IF d > MaxDepth \/ isTypeVariable(h, r) THEN <<>>
    ELSE <<[name |-> h[r].name, nameVar |-> h[r].nameVar]>>
           \o NamesOfArgs(h, h[r].types, 1, d + 1)

NamesOfArgs(h, types, i, d) ==
    IF i > Len(types) THEN <<>>
    ELSE Names(h, types[i], d) \o NamesOfArgs(h, types, i + 1, d)

\* The variable v is inside one of the types of non_generic.
InNonGeneric(h, v, non_generic) ==
    \E i \in DOMAIN non_generic : v \in ReachFrom(h, {non_generic[i]})

\* r.t in r.h is the copy fresh(t, non_generic) must return, given the graph h.
IsFreshCopy(h, r, t, non_generic) ==
    LET old == Leaves(h, t, 0)
        new == Leaves(r.h, r.t, 0)
    IN  /\ Shape(r.h, r.t) = Shape(h, t)
        /\ Names(r.h, r.t, 0) = Names(h, t, 0)
        /\ Len(new) = Len(old)
        /\ \A i \in DOMAIN old :
              IF InNonGeneric(h, old[i], non_generic)
              THEN new[i] = old[i]
              ELSE /\ new[i] > Len(h)
                   /\ r.h[new[i]] = TypeVariable({})
        /\ \A i \in DOMAIN old, j \in DOMAIN old :
              (old[i] = old[j]) <=> (new[i] = new[j])

\* Every object of h is in h2 what it was in h, but for bound variables
\* moved further along their own chain.
GraphKept(h, h2) ==
    \A n \in 1..Len(h) : ObjectKept(h, h2, n) /\ Resolve(h2, n) = Resolve(h, n)

\* C23 (amended): a call fresh(t, non_generic) that returns, returns a type
\* with the operator names and the shape of the pruned t, in which every
\* variable inside a type of non_generic is the original variable and every
\* other variable is a variable built by this call, without constraints, the
\* same one for the same original and different ones for different
\* originals. The call binds no unbound variable and changes no operator; a
\* bound variable may have its instance rewritten further along its own
\* chain.
C23_FreshCopies ==
    [][uniRet'.op = "fresh" =>
          \A t \in Nodes : \A non_generic \in NonGenerics :
              \A r \in {fresh(heap, t, non_generic, 0)} :
                  (heap' = Release(r.h, Nodes) /\ uniRet'.err = r.err) =>
                      /\ GraphKept(heap, r.h)
                      /\ r.err = "None" => IsFreshCopy(heap, r, t, non_generic)]_vars

\* C23 witness: fresh has returned on a graph that holds the function type
\* from its first variable to its second, both unbound.
C23_Witness ==
    /\ uniRet = [op |-> "fresh", err |-> "None"]
    /\ Unbound(heap, 1) /\ Unbound(heap, 2)
    /\ \E n \in Operators : heap[n] = Function(1, 2)

\* C23 as stated: fresh changes no object of the graph t is in.
C23_AsStated ==
    [][uniRet'.op = "fresh" => heap' = heap]_vars

(* Claims about lambda parameters *)

\* (T -> v) -> (v, v): the type of \id -> (id c, id c) for a constant c of
\* type T
MonoPairType(T) ==
    <<OpTok("->"), OpTok("->"), OpTok(T), VarTok(1),
      OpTok("tuple"), VarTok(1), VarTok(1)>>

\* (int -> T -> v) -> (v, v): the type of \f -> let g = f one in (g c, g c)
MonoLetPairType(T) ==
    <<OpTok("->"), OpTok("->"), OpTok("int"), OpTok("->"), OpTok(T),
      VarTok(1), OpTok("tuple"), VarTok(1), VarTok(1)>>

\* C24: a lambda parameter has one type in its body, and so has a name
\* let-bound in the body to a type that holds variables of the parameter's
\* type: \x -> x gets v -> v for one variable v; a body that applies the
\* parameter, or such a let-bound name, to two constants of different types
\* fails with a type mismatch; applied to the same constant twice, both
\* results are one variable, the one in the parameter's type.
C24_LambdaMonomorphic ==
    [][(PairPolymorphic(heap) /\ uniRet'.op = "analyze") =>
          /\ uniRet'.arg = Lam("x", Var("x")) =>
                /\ uniRet'.err = "None"
                /\ uniRet'.type = <<OpTok("->"), VarTok(1), VarTok(1)>>
          /\ \A c1 \in Consts, c2 \in Consts :
                /\ uniRet'.arg = LamIdPair(c1, c2) =>
                      IF ConstType(c1) = ConstType(c2)
                      THEN /\ uniRet'.err = "None"
                           /\ uniRet'.type = MonoPairType(ConstType(c1))
                      ELSE uniRet'.err = "Type mismatch"
                /\ uniRet'.arg = LamLetPair(c1, c2) =>
                      IF ConstType(c1) = ConstType(c2)
                      THEN /\ uniRet'.err = "None"
                           /\ uniRet'.type = MonoLetPairType(ConstType(c1))
                      ELSE uniRet'.err = "Type mismatch"]_vars

\* C24 witness: \f -> let g = f one in (g one, g true) was rejected with a
\* type mismatch while pair was polymorphic.
C24_Witness ==
    /\ uniRet.op = "analyze"
    /\ uniRet.arg = LamLetPair("one", "true")
    /\ uniRet.err = "Type mismatch"
    /\ PairPolymorphic(heap)

(***************************************************************************)
(* Unification of operators with concrete names                            *)
(***************************************************************************)

\* Two variables a and b, int, bool, the tuples (a, b) and (x, y) for any
\* two of these four, a tuple of one int, and a -> b.
ConcreteGraphs ==
    {<< TypeVariable({}), TypeVariable({}),
        TypeOperator("int", <<>>), TypeOperator("bool", <<>>),
        Tuple(<<1, 2>>), Tuple(<<x, y>>), Tuple(<<3>>), Function(1, 2) >> :
        x \in 1..4, y \in 1..4}

ConcreteInit ==
    /\ heap \in ConcreteGraphs
    /\ uniRet = [op |-> "None", err |-> "None"]
    /\ RegInit
    /\ funcs = <<>>
    /\ ret = NoRet
    /\ KleisliIdle
    /\ ThreadsIdle

\* unify and prune calls, in any order, on a graph of concrete operators
SpecConcrete == ConcreteInit /\ [][UnifyNext]_vars

(* Claims about concrete operators *)

\* What unifying the arguments of a and b pair by pair, from the left,
\* gives: the outcome of the first pair when it fails or is the only one,
\* else the outcome of the second pair on what the first left.
PairByPair(h, a, b) ==
    IF Len(h[a].types) = 0 THEN [h |-> h, err |-> "None"]
    ELSE LET first == unify(h, h[a].types[1], h[b].types[1], 0) IN
         IF first.err # "None" \/ Len(h[a].types) = 1 THEN first
         ELSE unify(first.h, h[a].types[2], h[b].types[2], 0)

\* C25: unify on two operators with concrete names fails with a type
\* mismatch and changes nothing when their names or their numbers of
\* arguments differ; otherwise it unifies the arguments pair by pair from
\* the left, fails with the error of the first pair that fails and leaves
\* the graph as that pair left it.
C25_ConcreteOperators ==
    [][\A a \in Nodes, b \in Nodes :
          (/\ isTypeOperator(heap, a) /\ isTypeOperator(heap, b)
           /\ heap[a].nameVar = 0 /\ heap[b].nameVar = 0
           /\ UnifyCall(a, b)) =>
              IF heap[a].name # heap[b].name
                 \/ Len(heap[a].types) # Len(heap[b].types)
              THEN uniRet'.err = "Type mismatch" /\ heap' = heap
              ELSE /\ uniRet'.err = PairByPair(heap, a, b).err
                   /\ heap' = PairByPair(heap, a, b).h]_vars

\* C25 witness: unify has failed with a type mismatch on a graph where
\* (a, b) and (int, a) exist, a is bound to bool and b is unbound: the
\* first pair fails, the second would have bound b.
C25_Witness ==
    /\ uniRet = [op |-> "unify", err |-> "Type mismatch"]
    /\ heap[6].types = <<3, 1>>
    /\ heap[1].instance = 4
    /\ Unbound(heap, 2)

(* Claims about placeholder-named operators *)

\* C26: unify on an operator a named by a variable, with at least one
\* argument, and an operator b with a concrete name, in either order,
\* returns, and a then has b's name and b's arguments.
C26_AdoptionSucceeds ==
    [][\A a \in Nodes, b \in Nodes :
          (/\ isTypeOperator(heap, a) /\ isTypeOperator(heap, b)
           /\ heap[a].nameVar # 0 /\ Len(heap[a].types) > 0
           /\ heap[b].nameVar = 0
           /\ Finite(heap, a) /\ Finite(heap, b)
           /\ (UnifyCall(a, b) \/ UnifyCall(b, a))) =>
              /\ uniRet'.err = "None"
              /\ heap'[a].name = heap[b].name
              /\ heap'[a].nameVar = 0
              /\ heap'[a].types = heap[b].types]_vars

(* Claims about the declared types of wrappers *)

\* C27: after any sequence of calls, applications and compositions, every
\* declared function still has the type it was declared with: no variable
\* of its fn_type has become bound.
C27_DeclaredTypesKept ==
    \A w \in 1..Len(Prims) :
        Shape(heap, funcs[w].fn_type) = Shape(Declared.h, Declared.fs[w].fn_type)

(* Claims about the identities of the registry *)

\* get_id(cls) would find an identity for the class: it allocates none.
HasIdentity(cls) ==
    getattr(cls, magic) # UNSET \/ cls \in DOMAIN readonly_types

\* The identity get_id(cls) returns now
Identity(cls) == get_id(cls, next_id, magic, readonly_types).res

\* C28: after any sequence of registry calls two different classes that
\* have an identity have different identities.
C28_IdentitiesInjective ==
    \A c1 \in Classes, c2 \in Classes :
        (c1 # c2 /\ HasIdentity(c1) /\ HasIdentity(c2)) =>
            Identity(c1) # Identity(c2)

(***************************************************************************)
(* Unification of constrained variables next to the registry               *)
(***************************************************************************)

\* An Eq variable, an Ord variable, int and a function type over two of
\* them.
ConstrainedGraphs ==
    {<< TypeVariable({"Eq"}), TypeVariable({"Ord"}),
        TypeOperator("int", <<>>), Function(x, y) >> :
        x \in 1..3, y \in 1..3}

ConstrainedInit ==
    /\ heap \in ConstrainedGraphs
    /\ uniRet = [op |-> "None", err |-> "None"]
    /\ RegInit
    /\ funcs = <<>>
    /\ ret = NoRet
    /\ KleisliIdle
    /\ ThreadsIdle

\* An Eq or an Ord instance is declared for int.
RegisterIntInstance ==
    /\ \E t \in {"Eq", "Ord"}, a \in Attrs : build_instance(t, "int", a)
    /\ UNCHANGED <<hmVars, tfVars, kleisliVars, threadVars>>

ConstrainedNext == Unify \/ Prune \/ FreshType \/ RegisterIntInstance

\* unify, prune and fresh calls on a graph with constrained variables,
\* before and after instances are declared for int
SpecConstrained == ConstrainedInit /\ [][ConstrainedNext]_vars

(* Claims about constraints *)

\* C29: unify on an unbound variable with constraints and an operator with
\* a concrete name that the variable is not inside, in either order,
\* returns and binds the variable to the operator, whatever instances are
\* registered; and every variable a fresh call builds has no constraints.
C29_ConstraintsNeverReject ==
    [][/\ \A v \in Nodes, t \in Nodes :
            (/\ Unbound(heap, v) /\ heap[v].constraints # {}
             /\ isTypeOperator(heap, t) /\ heap[t].nameVar = 0
             /\ v \notin ReachFrom(heap, {t})
             /\ (UnifyCall(v, t) \/ UnifyCall(t, v))) =>
                /\ uniRet'.err = "None"
                /\ heap'[v].instance = t
                /\ heap'[v].constraints = heap[v].constraints
       /\ uniRet'.op = "fresh" =>
            \A t \in Nodes : \A non_generic \in NonGenerics :
                \A r \in {fresh(heap, t, non_generic, 0)} :
                    \A n \in (Len(heap) + 1)..Len(r.h) :
                        isTypeVariable(r.h, n) => r.h[n].constraints = {}]_vars

\* C29 witness: unify has bound the Eq variable to int while no Eq instance
\* was registered for any class.
C29_Witness ==
    /\ uniRet = [op |-> "unify", err |-> "None"]
    /\ heap[1].constraints = {"Eq"}
    /\ heap[1].instance # 0
    /\ heap[heap[1].instance] = TypeOperator("int", <<>>)
    /\ instances["Eq"] = EmptyDict

(* Claims about when the native function is invoked *)

\* What a call step must do about the native function, given the state
\* before it: n parameters remain, k arguments are supplied.
InvocationStep ==
    ret'.op \in {"call", "mod"} =>
        LET w == ret'.fn
            args == ret'.args
            n == Len(funcs[w].fn_args) - 1
            k == Len(args)
            a == analyze_call(heap, funcs, w, args)
            new == Len(funcs) + 1
        IN  /\ ret'.invoked = 1 <=>
                   (NoUndefined(args) /\ k = n /\ a.err = "None")
            /\ (NoUndefined(args) /\ k # n /\ a.err = "None") =>
                   /\ ret'.raised = "None"
                   /\ ret'.value = FuncValue(new)
                   /\ ret'.ran = <<>>
                   /\ Len(funcs') = new
                   /\ funcs'[new].func = partial(w, args)
                   /\ funcs'[new].fn_args =
                        SubSeq(funcs'[w].fn_args, k + 1, Len(funcs'[w].fn_args))
                   /\ Len(funcs'[w].fn_args) = n + 1
            /\ ~NoUndefined(args) =>
                   ret'.value = undefined /\ Len(funcs') = Len(funcs)

\* C30 (amended): in a call without an Undefined argument the native
\* function is invoked exactly when the number of arguments equals
\* len(fn_args) - 1 and the arguments type-check; a call that type-checks
\* with fewer arguments, or with more, returns a new wrapper without
\* invoking the native function, and its parameter list is fn_args without
\* the first len(args) entries.  A call with an Undefined argument returns
\* that argument, invokes nothing and builds no wrapper.
C30_InvokedWhenSaturated == [][InvocationStep]_vars

\* C30 witness: fromInt :: int -> a was called with two arguments: the call
\* returned a new wrapper without parameters and did not invoke the native
\* function.
C30_Witness ==
    /\ ret.op = "call"
    /\ ret.fn = PrimIndex("fromInt")
    /\ ret.args = <<IntValue(1), IntValue(2)>>
    /\ ret.raised = "None"
    /\ ret.invoked = 0
    /\ ret.value = FuncValue(Len(funcs))
    /\ funcs[Len(funcs)].fn_args = <<>>

\* C30 as stated: the native function is invoked exactly when the number
\* of arguments equals len(fn_args) - 1 and the arguments type-check, and a
\* call that type-checks with another number of arguments returns a new
\* wrapper.
C30_AsStated ==
    [][ret'.op \in {"call", "mod"} =>
         LET n == Len(funcs[ret'.fn].fn_args) - 1
             k == Len(ret'.args)
             ok == analyze_call(heap, funcs, ret'.fn, ret'.args).err = "None"
         IN  /\ ret'.invoked = 1 <=> (k = n /\ ok)
             /\ (k # n /\ ok) => ret'.value = FuncValue(Len(funcs) + 1)]_vars

====
